---- MODULE Spec2Model ----
(***************************************************************************)
(* Model of the llvm_benzo build orchestration: the builder hierarchy of   *)
(* base_builders.py / builders.py, the registry gate, and the pipeline     *)
(* driver main() of do_build.py.                                           *)
(*                                                                         *)
(* Three specifications share the variables:                               *)
(*   Spec      the pipeline driver main() with every builder it runs       *)
(*   SpecReg   the registry configured by arbitrary call sequences         *)
(*   SpecFlags flag / define resolution of every builder class             *)
(***************************************************************************)
EXTENDS Naturals, Sequences, FiniteSets, TLC

(***************************************************************************)
(* Bounds of the model.                                                    *)
(***************************************************************************)
\* at most this many command-line options (a flag, one name of a --build or
\* --skip list) and environment deviations are present in one run
MaxOpts == 2
\* at most this many configuration calls are made on the registry
MaxCalls == 3

(***************************************************************************)
(* Toolchains and install trees.                                           *)
(***************************************************************************)
\* toolchains.get_prebuilt_toolchain()
Prebuilt == "prebuilt"
\* paths.OUT_DIR / 'stage1-install'
Stage1Install == "stage1-install"
\* utils.out_path('stage2-install')
Stage2Install == "stage2-install"
\* Builder.output_toolchain: declared, never bound by any code under src/
OutputToolchain == "output_toolchain"

\* names the registry is asked about: four builders and the two function-style
\* runtime steps that build_runtimes gates by hand
Names == {"stage1", "stage2", "sysroot", "compiler-rt", "libomp", "asan"}

(***************************************************************************)
(* Configurations (module configs).                                        *)
(***************************************************************************)
ArchList == <<"arm", "aarch64", "i386", "x86_64">>

android_api(arch, platform) ==
  IF platform THEN 29
  ELSE IF arch \in {"arm", "i386"} THEN 16
  ELSE 21

get_sysroot(arch, platform) ==
  "sysroots/" \o (IF platform THEN "platform" ELSE "ndk") \o "/" \o arch

AndroidConfig(arch, platform, extra) ==
  [target_os |-> "android", target_arch |-> arch, platform |-> platform,
   api_level |-> android_api(arch, platform),
   sysroot |-> get_sysroot(arch, platform),
   is_cross_compiling |-> TRUE, extra |-> extra,
   output_suffix |-> "-" \o arch \o (IF platform THEN "-platform" ELSE "-ndk-cxx")]

android_configs(platform, extra) ==
  [i \in 1..Len(ArchList) |-> AndroidConfig(ArchList[i], platform, extra)]

host_config ==
  [target_os |-> "linux", target_arch |-> "x86_64", platform |-> FALSE,
   api_level |-> 0, sysroot |-> "", is_cross_compiling |-> FALSE,
   extra |-> "", output_suffix |-> ""]

LinuxConfig32 ==
  [target_os |-> "linux", target_arch |-> "i386", platform |-> FALSE,
   api_level |-> 0, sysroot |-> "host-sysroot", is_cross_compiling |-> FALSE,
   extra |-> "", output_suffix |-> "-i386"]

(***************************************************************************)
(* Builder registry (module builder_registry).                             *)
(***************************************************************************)
RegistryDefault == [mode |-> "all", names |-> {}]

add_builds(names) == [mode |-> "builds", names |-> names]

add_skips(names) == [mode |-> "skips", names |-> names]

\* BuilderRegistry.add_filter(lambda name: False)
add_filter_false == [mode |-> "filter_false", names |-> {}]

\* a faulty gate that reads a skip-list as an allow-list
should_build_Inverted(reg, name) ==
  CASE reg.mode = "all" -> TRUE
    [] reg.mode = "builds" -> name \in reg.names
    [] reg.mode = "skips" -> name \in reg.names
    [] OTHER -> FALSE

should_build(reg, name) ==
  CASE reg.mode = "all" -> TRUE
    [] reg.mode = "builds" -> name \in reg.names
    [] reg.mode = "skips" -> name \notin reg.names
    [] OTHER -> FALSE

(***************************************************************************)
(* Toolchain accessors (module toolchains) and configuration accessors.    *)
(***************************************************************************)
Tool(tc, rel) == tc \o "/bin/" \o rel

lib_dirs(tc) == <<tc \o "/lib", tc \o "/lib/x86_64-unknown-linux-gnu">>

lib_dir(tc) == tc \o "/lib"

clang_lib_dir(tc) == [root |-> tc, rel |-> "lib/clang/ver"]

resource_dir(tc) == [root |-> tc, rel |-> "lib/clang/ver/lib/linux"]

llvm_triple(arch) ==
  CASE arch = "arm" -> "arm-linux-android"
    [] arch = "aarch64" -> "aarch64-linux-android"
    [] arch = "i386" -> "i686-linux-android"
    [] OTHER -> "x86_64-linux-android"

config_llvm_triple(cfg) ==
  IF cfg.target_os = "android" THEN llvm_triple(cfg.target_arch)
  ELSE IF cfg.target_arch = "i386" THEN "i386-unknown-linux-gnu"
  ELSE "x86_64-unknown-linux-gnu"

\* Config.cflags / Config.ldflags: the base flags the configuration carries
config_cflags(cfg) ==
  IF cfg.target_os = "android"
  THEN <<"--target=" \o llvm_triple(cfg.target_arch), "-ffunction-sections">>
  ELSE <<"--gcc-toolchain=gcc">>

config_ldflags(cfg) ==
  IF cfg.target_os = "android"
  THEN <<"-Wl,-z,defs", "-fuse-ld=lld">>
  ELSE <<"-fuse-ld=lld">>

\* Config.cmake_defines: the extra defines the configuration carries
config_cmake_defines(cfg) ==
  IF cfg.target_os = "android"
  THEN ("ANDROID_NATIVE_API_LEVEL" :> <<"api">>)
  ELSE <<>>

\* Config.get_c_compiler(toolchain) / get_cxx_compiler(toolchain)
get_c_compiler(cfg, tc) == Tool(tc, "clang")

get_cxx_compiler(cfg, tc) == Tool(tc, "clang++")

get_linker(cfg, tc) == Tool(tc, "ld.lld")

\* Host.crt_dir
crt_dir(cfg) == "linux"

(***************************************************************************)
(* Dictionaries of cmake defines: key |-> value, a value being the list of *)
(* words that ' '.join() turns into the define's string.                   *)
(***************************************************************************)
W(s) == <<s>>

Put(d, k, v) == (k :> v) @@ d

PutAll(d, ks, v) == [k \in ks |-> v] @@ d

Del(d, k) == [x \in (DOMAIN d) \ {k} |-> d[x]]

Update(d, e) == e @@ d

\* if c: d[k] = v
PutIf(c, d, k, v) == IF c THEN (k :> v) @@ d ELSE d

\* if c: d.update(e)
UpdateIf(c, d, e) == IF c THEN e @@ d ELSE d

(***************************************************************************)
(* A builder object: its class, the toolchains it resolves, and the static *)
(* fields the pipeline driver may set on it.                               *)
(***************************************************************************)
BuilderObj(cls, name, tc) ==
  [cls |-> cls, name |-> name, toolchain |-> tc,
   output_toolchain |-> OutputToolchain,
   enable_assertions |-> FALSE, debug_build |-> FALSE,
   build_instrumented |-> FALSE, lto |-> TRUE, profdata_file |-> FALSE,
   build_all_targets |-> FALSE, build_llvm_tools |-> FALSE,
   build_android_targets |-> FALSE]

_cc(self, cfg) == get_c_compiler(cfg, self.toolchain)

_cxx(self, cfg) == get_cxx_compiler(cfg, self.toolchain)

(***************************************************************************)
(* cflags / ldflags / cxxflags, layer by layer.  X_cflags is the body of   *)
(* class X's property; super() is the call of the parent's operator.       *)
(***************************************************************************)
Builder_cflags(self, cfg) == <<>>

Builder_ldflags(self, cfg) ==
  IF ~cfg.is_cross_compiling
  THEN [i \in 1..Len(lib_dirs(self.toolchain)) |-> "-L" \o lib_dirs(self.toolchain)[i]]
  ELSE <<>>

AutoconfBuilder_cflags(self, cfg) ==
  LET c1 == Append(Builder_cflags(self, cfg), "-fPIC")
      c2 == Append(c1, "-Wno-unused-command-line-argument")
  IN IF cfg.sysroot # "" THEN Append(c2, "--sysroot=" \o cfg.sysroot) ELSE c2

Stage2Builder_cflags(self, cfg) ==
  LET c == Builder_cflags(self, cfg)
  IN IF self.profdata_file
     THEN Append(Append(c, "-Wno-profile-instr-out-of-date"),
                 "-Wno-profile-instr-unprofiled")
     ELSE c

CompilerRTBuilder_cflags(self, cfg) ==
  Append(Builder_cflags(self, cfg), "-funwind-tables")

CompilerRTHostI386Builder_cflags(self, cfg) ==
  LET c1 == Append(Builder_cflags(self, cfg), "-D__STDC_FORMAT_MACROS")
      c2 == Append(c1, "--target=i386-linux-gnu")
  IN Append(c2, "-march=i686")

LibUnwindBuilder_cflags(self, cfg) ==
  Builder_cflags(self, cfg) \o <<"-D_LIBUNWIND_USE_DLADDR=0">>

DoBuild_CompilerRTBuilder_cflags(self, cfg) ==
  Append(Append(Builder_cflags(self, cfg), "-funwind-tables"),
         "-Wno-unused-command-line-argument")

DoBuild_LibOMPBuilder_cflags(self, cfg) ==
  Append(Append(Builder_cflags(self, cfg), "-Wno-unused-command-line-argument"),
         "-Wno-non-c-typedef-for-linkage")

Stage1Builder_ldflags(self, cfg) ==
  Append(Builder_ldflags(self, cfg), "-static-libstdc++")

\* a faulty override that puts its own flag in front of the parent's flags
Stage2Builder_ldflags_Prepending(self, cfg) ==
  LET l == Builder_ldflags(self, cfg)
  IN IF self.build_instrumented
     THEN <<self.toolchain \o "/" \o resource_dir(self.toolchain).rel
            \o "/libclang_rt.profile-x86_64.a">> \o l
     ELSE l

Stage2Builder_ldflags(self, cfg) ==
  LET l == Builder_ldflags(self, cfg)
  IN IF self.build_instrumented
     THEN Append(l, self.toolchain \o "/" \o resource_dir(self.toolchain).rel
                    \o "/libclang_rt.profile-x86_64.a")
     ELSE l

LibUnwindBuilder_ldflags(self, cfg) ==
  Builder_ldflags(self, cfg) \o <<"-unwindlib=none">>

DoBuild_Stage1Builder_ldflags(self, cfg) ==
  Append(Builder_ldflags(self, cfg), "-Wl,-rpath," \o lib_dir(self.toolchain))

\* self.cflags: the property of the object's own class
cflags(self, cfg) ==
  CASE self.cls = "AutoconfBuilder" -> AutoconfBuilder_cflags(self, cfg)
    [] self.cls \in {"Stage2Builder", "DoBuild_Stage2Builder"} ->
         Stage2Builder_cflags(self, cfg)
    [] self.cls = "CompilerRTBuilder" -> CompilerRTBuilder_cflags(self, cfg)
    [] self.cls = "CompilerRTHostI386Builder" ->
         CompilerRTHostI386Builder_cflags(self, cfg)
    [] self.cls = "LibUnwindBuilder" -> LibUnwindBuilder_cflags(self, cfg)
    [] self.cls = "DoBuild_CompilerRTBuilder" ->
         DoBuild_CompilerRTBuilder_cflags(self, cfg)
    [] self.cls = "DoBuild_LibOMPBuilder" -> DoBuild_LibOMPBuilder_cflags(self, cfg)
    [] OTHER -> Builder_cflags(self, cfg)

\* self.ldflags
ldflags(self, cfg) ==
  CASE self.cls = "Stage1Builder" -> Stage1Builder_ldflags(self, cfg)
    [] self.cls \in {"Stage2Builder", "DoBuild_Stage2Builder"} ->
         Stage2Builder_ldflags(self, cfg)
    [] self.cls = "LibUnwindBuilder" -> LibUnwindBuilder_ldflags(self, cfg)
    [] self.cls = "DoBuild_Stage1Builder" -> DoBuild_Stage1Builder_ldflags(self, cfg)
    [] OTHER -> Builder_ldflags(self, cfg)

Builder_cxxflags(self, cfg) == cflags(self, cfg)

AutoconfBuilder_cxxflags(self, cfg) ==
  Append(Builder_cxxflags(self, cfg), "-stdlib=libc++")

\* self.cxxflags
cxxflags(self, cfg) ==
  IF self.cls = "AutoconfBuilder" THEN AutoconfBuilder_cxxflags(self, cfg)
  ELSE Builder_cxxflags(self, cfg)

(***************************************************************************)
(* output_dir / install_dir: a path is the tree it lies in and the path    *)
(* relative to that tree's root.                                           *)
(***************************************************************************)
P(root, rel) == [root |-> root, rel |-> rel]

\* str(path)
Str(p) == IF p.rel = "" THEN p.root ELSE p.root \o "/" \o p.rel

is_shared(cfg) == cfg.extra = "is_shared=True"

is_exported(cfg) == cfg.extra = "is_exported=True"

CMakeBuilder_output_dir(self, cfg) == P("out", "lib/" \o self.name \o cfg.output_suffix)

LLVMBuilder_output_dir(self, cfg) == P("out", self.name)

LLVMBuilder_install_dir(self, cfg) == P(self.name \o "-install", "")

BuiltinsBuilder_output_dir(self, cfg) ==
  LET old == CMakeBuilder_output_dir(self, cfg)
  IN P(old.root, old.rel \o (IF is_exported(cfg) THEN "-exported" ELSE ""))

LibUnwindBuilder_output_dir(self, cfg) ==
  LET old == CMakeBuilder_output_dir(self, cfg)
  IN P(old.root, old.rel \o (IF cfg.platform THEN "-exported" ELSE "-hermetic"))

\* an output_dir that does not tell the shared from the static build
LibOMPBuilder_output_dir_Plain(self, cfg) == CMakeBuilder_output_dir(self, cfg)

LibOMPBuilder_output_dir(self, cfg) ==
  LET old == CMakeBuilder_output_dir(self, cfg)
  IN P(old.root, old.rel \o (IF is_shared(cfg) THEN "-shared" ELSE "-static"))

LLVMClasses == {"Stage1Builder", "Stage2Builder", "DoBuild_Stage1Builder",
                "DoBuild_Stage2Builder"}

\* self.output_dir
output_dir(self, cfg) ==
  CASE self.cls \in LLVMClasses -> LLVMBuilder_output_dir(self, cfg)
    [] self.cls = "BuiltinsBuilder" -> BuiltinsBuilder_output_dir(self, cfg)
    [] self.cls = "LibUnwindBuilder" -> LibUnwindBuilder_output_dir(self, cfg)
    [] self.cls \in {"LibOMPBuilder", "DoBuild_LibOMPBuilder"} ->
         LibOMPBuilder_output_dir(self, cfg)
    [] OTHER -> CMakeBuilder_output_dir(self, cfg)

CMakeBuilder_install_dir(self, cfg) ==
  LET od == output_dir(self, cfg) IN P(od.root, od.rel \o "-install")

output_resource_dir(self, cfg) ==
  P(self.output_toolchain, clang_lib_dir(self.output_toolchain).rel \o "/lib/" \o crt_dir(cfg))

\* an install_dir that always is the resource directory of the output toolchain
LLVMRuntimeBuilder_install_dir_Platform(self, cfg) ==
  P(self.output_toolchain, output_resource_dir(self, cfg).rel \o "/" \o cfg.target_arch)

LLVMRuntimeBuilder_install_dir(self, cfg) ==
  IF cfg.target_os = "android" /\ ~cfg.platform
  THEN P(self.output_toolchain, "runtimes_ndk_cxx/" \o cfg.target_arch)
  ELSE P(self.output_toolchain, output_resource_dir(self, cfg).rel \o "/" \o cfg.target_arch)

CompilerRTBuilder_install_dir(self, cfg) ==
  IF cfg.platform THEN clang_lib_dir(self.output_toolchain)
  ELSE LET od == output_dir(self, cfg) IN P(od.root, od.rel \o "-install")

DoBuild_CompilerRTBuilder_install_dir(self, cfg) ==
  IF cfg.platform THEN clang_lib_dir(self.toolchain)
  ELSE LET od == output_dir(self, cfg) IN P(od.root, od.rel \o "-install")

CompilerRTHostI386Builder_install_dir(self, cfg) ==
  clang_lib_dir(self.output_toolchain)

\* self.install_dir
install_dir(self, cfg) ==
  CASE self.cls \in LLVMClasses -> LLVMBuilder_install_dir(self, cfg)
    [] self.cls = "CompilerRTBuilder" -> CompilerRTBuilder_install_dir(self, cfg)
    [] self.cls = "DoBuild_CompilerRTBuilder" ->
         DoBuild_CompilerRTBuilder_install_dir(self, cfg)
    [] self.cls = "CompilerRTHostI386Builder" ->
         CompilerRTHostI386Builder_install_dir(self, cfg)
    [] self.cls \in {"CMakeBuilder", "AutoconfBuilder"} ->
         CMakeBuilder_install_dir(self, cfg)
    [] OTHER -> LLVMRuntimeBuilder_install_dir(self, cfg)

(***************************************************************************)
(* cmake_defines, layer by layer.                                          *)
(***************************************************************************)
no_unused_cflag == "-Wno-unused-command-line-argument"

CMakeBuilder_cmake_defines(self, cfg) ==
  LET sys == IF cfg.sysroot # "" THEN <<"--sysroot=" \o cfg.sysroot>> ELSE <<>>
      cfl == config_cflags(cfg) \o cflags(self, cfg) \o sys
      cxx == config_cflags(cfg) \o cxxflags(self, cfg) \o sys
      ldf == config_ldflags(cfg) \o ldflags(self, cfg) \o sys
      tc  == self.toolchain
      d0  == [k \in {"CMAKE_ASM_FLAGS", "CMAKE_C_FLAGS"} |-> Append(cfl, no_unused_cflag)]
             @@ ("CMAKE_CXX_FLAGS" :> Append(cxx, no_unused_cflag))
             @@ [k \in {"CMAKE_EXE_LINKER_FLAGS", "CMAKE_SHARED_LINKER_FLAGS",
                        "CMAKE_MODULE_LINKER_FLAGS"} |-> ldf]
             @@ ("CMAKE_C_COMPILER" :> W(_cc(self, cfg)))
             @@ ("CMAKE_CXX_COMPILER" :> W(_cxx(self, cfg)))
             @@ ("CMAKE_ADDR2LINE" :> W(Tool(tc, "llvm-addr2line")))
             @@ ("CMAKE_AR" :> W(Tool(tc, "llvm-ar")))
             @@ ("CMAKE_LIPO" :> W(Tool(tc, "llvm-lipo")))
             @@ ("CMAKE_NM" :> W(Tool(tc, "llvm-nm")))
             @@ ("CMAKE_OBJCOPY" :> W(Tool(tc, "llvm-objcopy")))
             @@ ("CMAKE_OBJDUMP" :> W(Tool(tc, "llvm-objdump")))
             @@ ("CMAKE_RANLIB" :> W(Tool(tc, "llvm-ranlib")))
             @@ ("CMAKE_RC_COMPILER" :> W(Tool(tc, "llvm-rc")))
             @@ ("CMAKE_READELF" :> W(Tool(tc, "llvm-readelf")))
             @@ ("CMAKE_STRIP" :> W(Tool(tc, "llvm-strip")))
             @@ ("CMAKE_MT" :> W(Tool(tc, "llvm-mt")))
             @@ ("CMAKE_BUILD_TYPE" :> W("Release"))
             @@ ("CMAKE_INSTALL_PREFIX" :> W(Str(install_dir(self, cfg))))
             @@ ("CMAKE_MAKE_PROGRAM" :> W("prebuilts/cmake/bin/ninja"))
             @@ [k \in {"CMAKE_FIND_ROOT_PATH_MODE_INCLUDE",
                        "CMAKE_FIND_ROOT_PATH_MODE_LIBRARY",
                        "CMAKE_FIND_ROOT_PATH_MODE_PACKAGE"} |-> W("ONLY")]
             @@ ("CMAKE_FIND_ROOT_PATH_MODE_PROGRAM" :> W("NEVER"))
             @@ ("CMAKE_POSITION_INDEPENDENT_CODE" :> W("ON"))
             @@ ("GO_EXECUTABLE" :> W("prebuilts/go/bin/go"))
      d1  == Put(d0, "CMAKE_LINKER", W(get_linker(cfg, tc)))
      d2  == PutIf(cfg.sysroot # "", d1, "CMAKE_SYSROOT", W(cfg.sysroot))
      d3  == UpdateIf(cfg.target_os = "android", d2,
                      ("ANDROID" :> W("1")) @@ ("CMAKE_SYSTEM_VERSION" :> W("1")))
      d4  == UpdateIf(cfg.is_cross_compiling, d3,
                      ("CMAKE_SYSTEM_NAME" :> W("Android"))
                      @@ ("CMAKE_SYSTEM_PROCESSOR" :> W(cfg.target_arch)))
  IN Update(d4, config_cmake_defines(cfg))

\* the body of LLVMBaseBuilder.cmake_defines after `defines = super().cmake_defines`
LLVMBaseBuilder_layer(self, cfg, d0) ==
  LET d1 == Put(d0, "LLVM_ENABLE_ASSERTIONS",
                IF self.enable_assertions THEN W("ON") ELSE W("OFF"))
      \* num_jobs is None: the output of `nproc`
      d2 == Put(d1, "LLVM_PARALLEL_COMPILE_JOBS", W("$(nproc)"))
      d3 == Update(d2,
              ("LLVM_ENABLE_TERMINFO" :> W("OFF"))
              @@ ("LLVM_ENABLE_THREADS" :> W("ON"))
              @@ ("LLVM_VERSION_SUFFIX" :> W(""))
              @@ ("PACKAGE_VENDOR" :> W("benzoClang"))
              @@ ("PACKAGE_REPOSITORY" :> W("https://github.com/benzoClang/llvm-project"))
              @@ ("PACKAGE_REVISION" :> W("r480375"))
              @@ ("COMPILER_RT_BUILD_XRAY" :> W("OFF"))
              @@ ("LLVM_ENABLE_LIBCXX" :> W("ON"))
              @@ ("LLVM_ENABLE_LLD" :> W("ON"))
              @@ ("LLVM_INCLUDE_BENCHMARKS" :> W("OFF"))
              @@ ("LLVM_INCLUDE_EXAMPLES" :> W("OFF")))
      d4 == UpdateIf(cfg.target_os # "android", d3,
                   [k \in {"Python3_LIBRARY", "Python3_LIBRARIES"} |->
                      W("prebuilts/python/lib/libpython3.8.so")]
                   @@ [k \in {"Python3_INCLUDE_DIR", "Python3_INCLUDE_DIRS"} |->
                      W("prebuilts/python/include/python3.8")])
  IN Put(d4, "Python3_EXECUTABLE", W("prebuilts/python/bin/python3.8"))

LLVMBaseBuilder_cmake_defines(self, cfg) ==
  LLVMBaseBuilder_layer(self, cfg, CMakeBuilder_cmake_defines(self, cfg))

\* the body of LLVMRuntimeBuilder.cmake_defines after `defines = super().cmake_defines`
LLVMRuntimeBuilder_layer(self, cfg, d0) ==
  LET d1 == Put(d0, "LLVM_CONFIG_PATH", W(Tool(self.toolchain, "llvm-config")))
  IN PutIf(cfg.target_os = "android", d1, "ANDROID_PLATFORM_LEVEL", W("api_level"))

LLVMRuntimeBuilder_cmake_defines(self, cfg) ==
  LLVMRuntimeBuilder_layer(self, cfg, LLVMBaseBuilder_cmake_defines(self, cfg))

\* BASE_TARGETS / ANDROID_TARGETS, split on ';' and sorted
BASE_TARGETS == <<"X86">>

ANDROID_TARGETS == <<"AArch64", "ARM", "BPF", "X86">>

\* sorted(self.llvm_targets)
llvm_targets(self) ==
  CASE self.cls = "DoBuild_Stage1Builder" ->
         IF self.build_all_targets THEN ANDROID_TARGETS ELSE BASE_TARGETS
    [] self.cls = "Stage1Builder" ->
         IF self.build_android_targets THEN ANDROID_TARGETS ELSE BASE_TARGETS
    [] OTHER -> ANDROID_TARGETS

\* sorted(self.llvm_projects)
llvm_projects(self) ==
  IF self.cls \in {"Stage1Builder", "DoBuild_Stage1Builder"}
  THEN <<"clang", "compiler-rt", "libcxx", "libcxxabi", "lld">>
  ELSE <<"clang", "clang-tools-extra", "compiler-rt", "libcxx", "libcxxabi",
         "lld", "openmp", "polly">>

runtimes_passthrough_args ==
  {"CMAKE_C_FLAGS", "CMAKE_CXX_FLAGS", "CMAKE_SHARED_LINKER_FLAGS",
   "CMAKE_EXE_LINKER_FLAGS", "CMAKE_MODULE_LINKER_FLAGS", "LLVM_ENABLE_LIBCXX"}

\* LLVMBuilder._set_lldb_flags with swig, liblzma, libedit, libxml2, libncurses
\* and libzstd at their class default None
_set_lldb_flags(defines) ==
  Update(defines,
    [k \in {"LLDB_ENABLE_LUA", "LLDB_ENABLE_PYTHON", "LLDB_ENABLE_LZMA",
            "LLDB_ENABLE_LIBEDIT", "LLDB_ENABLE_LIBXML2", "LLDB_ENABLE_CURSES",
            "LLVM_ENABLE_ZSTD", "LLDB_INCLUDE_TESTS"} |-> W("OFF")])

\* the per-triple runtime defines LLVMBuilder.cmake_defines adds for a Linux
\* target, the passthrough values being read from the defines so far
runtime_defines(d, cfg) ==
  LET triple == config_llvm_triple(cfg)
      pre == "RUNTIMES_" \o triple \o "_"
  IN IF cfg.target_os = "linux"
     THEN Update(d,
            ("LLVM_RUNTIME_TARGETS" :> W(triple))
            @@ [k \in {pre \o a : a \in runtimes_passthrough_args} |->
                  d[CHOOSE a \in runtimes_passthrough_args : pre \o a = k]]
            @@ ((pre \o "LIBCXX_HAS_ATOMIC_LIB") :> W("NO"))
            @@ ((pre \o "LIBCXX_ENABLE_ABI_LINKER_SCRIPT") :> W("OFF"))
            @@ ((pre \o "LIBCXX_ENABLE_STATIC_ABI_LIBRARY") :> W("ON"))
            @@ ((pre \o "LIBCXX_TEST_COMPILER_FLAGS") :> d["CMAKE_CXX_FLAGS"])
            @@ ((pre \o "LIBCXX_TEST_LINKER_FLAGS") :> d["CMAKE_EXE_LINKER_FLAGS"])
            @@ ((pre \o "SANITIZER_ALLOW_CXXABI") :> W("OFF")))
     ELSE d

\* the body of LLVMBuilder.cmake_defines after `defines = super().cmake_defines`
LLVMBuilder_layer(self, cfg, d0) ==
  LET d1 == Update(d0,
              ("LLVM_ENABLE_PROJECTS" :> llvm_projects(self))
              @@ ("LLVM_ENABLE_RUNTIMES" :> W("llvm_runtime_projects"))
              @@ ("LLVM_TARGETS_TO_BUILD" :> llvm_targets(self))
              @@ ("LLVM_BUILD_LLVM_DYLIB" :> W("ON"))
              @@ ("LLVM_BUILD_RUNTIME" :> W("ON"))
              @@ ("LLVM_INCLUDE_GO_TESTS" :> W("OFF"))
              @@ ("LLVM_ENABLE_BINDINGS" :> W("OFF")))
      d2 == _set_lldb_flags(d1)
      d3 == Update(d2, ("CLANG_DEFAULT_LINKER" :> W("lld"))
                       @@ ("CLANG_DEFAULT_OBJCOPY" :> W("llvm-objcopy")))
  IN runtime_defines(d3, cfg)

LLVMBuilder_cmake_defines(self, cfg) ==
  LLVMBuilder_layer(self, cfg, LLVMBaseBuilder_cmake_defines(self, cfg))

\* the class-level set LLVMBuilder.runtimes_triples after cmake_defines ran
LLVMBuilder_runtimes_triples(self, cfg, triples) ==
  IF cfg.target_os = "linux" THEN triples \cup {config_llvm_triple(cfg)}
  ELSE triples

Stage1Builder_cmake_defines(self, cfg) ==
  Update(LLVMBuilder_cmake_defines(self, cfg),
    [k \in {"CLANG_ENABLE_ARCMT", "CLANG_ENABLE_STATIC_ANALYZER",
            "LIBCXX_ENABLE_ABI_LINKER_SCRIPT", "COMPILER_RT_BUILD_LIBFUZZER"} |-> W("OFF")]
    @@ [k \in {"LLVM_BUILD_TOOLS", "LIBCXX_ENABLE_STATIC_ABI_LIBRARY"} |-> W("ON")]
    @@ [k \in {"CMAKE_POLICY_DEFAULT_CMP0114", "CMAKE_POLICY_DEFAULT_CMP0116"} |-> W("OLD")])

DoBuild_Stage1Builder_cmake_defines(self, cfg) ==
  Update(LLVMBuilder_cmake_defines(self, cfg),
    [k \in {"CLANG_ENABLE_ARCMT", "CLANG_ENABLE_STATIC_ANALYZER",
            "LIBCXX_ENABLE_ABI_LINKER_SCRIPT", "COMPILER_RT_BUILD_LIBFUZZER"} |-> W("OFF")]
    @@ ("LLVM_BUILD_TOOLS" :> IF self.build_llvm_tools THEN W("ON") ELSE W("OFF"))
    @@ ("LIBCXX_ENABLE_STATIC_ABI_LIBRARY" :> W("ON")))

\* a profile-use define that does not give way to an instrumented build
Stage2_pgo_defines_Both(self, d) ==
  LET d1 == IF self.build_instrumented
            THEN Put(Put(d, "LLVM_BUILD_INSTRUMENTED", W("ON")),
                     "LLVM_PROFDATA", W(Tool(self.toolchain, "llvm-profdata")))
            ELSE d
  IN PutIf(self.profdata_file, d1, "LLVM_PROFDATA_FILE", W("profdata"))

\* the part of cmake_defines that Stage2Builder has in both source files
\* build_instrumented / profdata_file
Stage2_pgo_defines(self, d) ==
  IF self.build_instrumented
  THEN Put(Put(d, "LLVM_BUILD_INSTRUMENTED", W("ON")),
           "LLVM_PROFDATA", W(Tool(self.toolchain, "llvm-profdata")))
  ELSE IF self.profdata_file
  THEN Put(d, "LLVM_PROFDATA_FILE", W("profdata"))
  ELSE d

Stage2_common_defines(self, d0) ==
  LET d1 == Update(d0,
              ("SANITIZER_ALLOW_CXXABI" :> W("OFF"))
              @@ ("OPENMP_ENABLE_OMPT_TOOLS" :> W("FALSE"))
              @@ ("LIBOMP_ENABLE_SHARED" :> W("FALSE"))
              @@ ("LLVM_POLLY_LINK_INTO_TOOLS" :> W("ON"))
              @@ ("CLANG_DEFAULT_LINKER" :> W("lld")))
      d2 == PutIf(self.lto /\ ~self.build_instrumented /\ ~self.debug_build,
                  d1, "LLVM_ENABLE_LTO", W("Thin"))
      d3 == Put(d2, "COMPILER_RT_BUILD_LIBFUZZER", W("ON"))
      d4 == PutIf(self.debug_build, d3, "CMAKE_BUILD_TYPE", W("Debug"))
      d5 == Stage2_pgo_defines(self, d4)
  IN Update(d5, ("LIBCXX_ENABLE_STATIC_ABI_LIBRARY" :> W("ON"))
                @@ ("LIBCXX_ENABLE_ABI_LINKER_SCRIPT" :> W("OFF"))
                @@ ("LLVM_INCLUDE_TESTS" :> W("OFF")))

Stage2_tools_off ==
  {"LLVM_TOOL_LLVM_AS_FUZZER_BUILD", "LLVM_TOOL_LLVM_BCANALYZER_BUILD",
   "LLVM_TOOL_LLVM_CAT_BUILD", "LLVM_TOOL_LLVM_CVTRES_BUILD",
   "LLVM_TOOL_LLVM_C_TEST_BUILD", "LLVM_TOOL_LLVM_DWP_BUILD",
   "LLVM_TOOL_LLVM_ELFABI_BUILD", "LLVM_TOOL_LLVM_EXEGESIS_BUILD",
   "LLVM_TOOL_LLVM_GSYMUTIL_BUILD", "LLVM_TOOL_LLVM_IFS_BUILD",
   "LLVM_TOOL_LLVM_ISEL_FUZZER_BUILD",
   "LLVM_TOOL_LLVM_ITANIUM_DEMANGLE_FUZZER_BUILD", "LLVM_TOOL_LLVM_LTO2_BUILD",
   "LLVM_TOOL_LLVM_LTO_BUILD", "LLVM_TOOL_LLVM_MCA_BUILD",
   "LLVM_TOOL_LLVM_MC_BUILD", "LLVM_TOOL_LLVM_ML_BUILD", "LLVM_TOOL_LLVM_MT_BUILD",
   "LLVM_TOOL_LLVM_OPT_FUZZER_BUILD", "LLVM_TOOL_LLVM_OPT_REPORT_BUILD",
   "LLVM_TOOL_LLVM_PDBUTIL_BUILD", "LLVM_TOOL_LLVM_REDUCE_BUILD",
   "LLVM_TOOL_LLVM_RTDYLD_BUILD", "LLVM_TOOL_LLVM_SPLIT_BUILD",
   "LLVM_TOOL_LLVM_STRESS_BUILD", "LLVM_TOOL_LLVM_UNDNAME_BUILD",
   "LLVM_TOOL_LLVM_XRAY_BUILD"}

Stage2Builder_cmake_defines(self, cfg) ==
  Update(Stage2_common_defines(self, LLVMBuilder_cmake_defines(self, cfg)),
       ("CLANG_PYTHON_BINDINGS_VERSIONS" :> W("3"))
       @@ [k \in {"CMAKE_POLICY_DEFAULT_CMP0114", "CMAKE_POLICY_DEFAULT_CMP0116"} |-> W("OLD")]
       @@ [k \in Stage2_tools_off \cup {"LLVM_INCLUDE_GO_TESTS", "LLVM_INCLUDE_EXAMPLES",
                                       "LLVM_INCLUDE_BENCHMARKS"} |-> W("OFF")])

DoBuild_Stage2Builder_cmake_defines(self, cfg) ==
  Update(Stage2_common_defines(self, LLVMBuilder_cmake_defines(self, cfg)),
       ("LIBOMP_CXXFLAGS" :> <<"-Wno-c99-extensions", "-Wno-deprecated-copy",
                               "-Wno-gnu-anonymous-struct",
                               "-Wno-missing-field-initializers",
                               "-Wno-non-c-typedef-for-linkage", "-Wno-vla-extension">>)
       @@ [k \in Stage2_tools_off \cup
                 {"LLVM_TOOL_LLVM_LIPO_BUILD", "LLVM_TOOL_LLVM_JITLINK_BUILD",
                  "LLVM_TOOL_LLVM_CXXDUMP_BUILD", "LLVM_TOOL_LLVM_CXXFILT_BUILD",
                  "LLVM_TOOL_LLVM_CXXMAP_BUILD", "LLVM_TOOL_LLVM_DIFF_BUILD",
                  "LLVM_TOOL_LLVM_EXTRACT_BUILD", "LLVM_TOOL_LLVM_GO_BUILD"} |-> W("OFF")])

BuiltinsBuilder_cmake_defines(self, cfg) ==
  Update(LLVMRuntimeBuilder_cmake_defines(self, cfg),
    ("COMPILER_RT_BUILTINS_HIDE_SYMBOLS" :>
        IF ~is_exported(cfg) THEN W("TRUE") ELSE W("FALSE"))
    @@ ("COMPILER_RT_DEFAULT_TARGET_TRIPLE" :> W(llvm_triple(cfg.target_arch)))
    @@ ("CMAKE_TRY_COMPILE_TARGET_TYPE" :> W("STATIC_LIBRARY")))

\* libs of SANITIZER_COMMON_LINK_LIBS before the trailing additions
\* defines['COMPILER_RT_TEST_COMPILER_CFLAGS'] = defines['CMAKE_C_FLAGS']
test_compiler_cflags(d) == Put(d, "COMPILER_RT_TEST_COMPILER_CFLAGS", d["CMAKE_C_FLAGS"])

sanitizer_libs(cfg) ==
  (IF cfg.target_arch = "arm" THEN <<"-latomic">> ELSE <<>>)
  \o (IF cfg.api_level < 21 THEN <<"-landroid_support">> ELSE <<>>)

\* the body of CompilerRTBuilder.cmake_defines after `defines = super().cmake_defines`
CompilerRTBuilder_layer(self, cfg, d0) ==
  LET d1 == Update(test_compiler_cflags(d0),
              ("COMPILER_RT_BUILD_BUILTINS" :> W("OFF"))
              @@ ("COMPILER_RT_USE_BUILTINS_LIBRARY" :> W("ON"))
              @@ ("COMPILER_RT_DEFAULT_TARGET_TRIPLE" :> W(llvm_triple(cfg.target_arch)))
              @@ ("COMPILER_RT_INCLUDE_TESTS" :> W("OFF"))
              @@ ("SANITIZER_CXX_ABI" :> W("libcxxabi")))
      d2 == Del(d1, "CMAKE_SYSTEM_NAME")
      d3 == Put(d2, "SANITIZER_COMMON_LINK_LIBS", Append(sanitizer_libs(cfg), "-lunwind"))
  IN PutIf(cfg.platform, d3, "COMPILER_RT_HWASAN_WITH_INTERCEPTORS", W("OFF"))

CompilerRTBuilder_cmake_defines(self, cfg) ==
  CompilerRTBuilder_layer(self, cfg, LLVMRuntimeBuilder_cmake_defines(self, cfg))

\* a faulty override that forgets `del defines['CMAKE_SYSTEM_NAME']`
DoBuild_CompilerRTBuilder_layer_Keeping(self, cfg, d0) ==
  LET d1 == Update(test_compiler_cflags(d0),
              ("COMPILER_RT_TEST_TARGET_TRIPLE" :> W(llvm_triple(cfg.target_arch)))
              @@ ("COMPILER_RT_INCLUDE_TESTS" :> W("OFF"))
              @@ ("SANITIZER_CXX_ABI" :> W("libcxxabi")))
      d3 == Put(d1, "SANITIZER_COMMON_LINK_LIBS", sanitizer_libs(cfg))
  IN PutIf(cfg.platform, d3, "COMPILER_RT_HWASAN_WITH_INTERCEPTORS", W("OFF"))

\* the body of do_build.CompilerRTBuilder.cmake_defines after `defines = super().cmake_defines`
DoBuild_CompilerRTBuilder_layer(self, cfg, d0) ==
  LET d1 == Update(test_compiler_cflags(d0),
              ("COMPILER_RT_TEST_TARGET_TRIPLE" :> W(llvm_triple(cfg.target_arch)))
              @@ ("COMPILER_RT_INCLUDE_TESTS" :> W("OFF"))
              @@ ("SANITIZER_CXX_ABI" :> W("libcxxabi")))
      d2 == Del(d1, "CMAKE_SYSTEM_NAME")
      d3 == Put(d2, "SANITIZER_COMMON_LINK_LIBS", sanitizer_libs(cfg))
  IN PutIf(cfg.platform, d3, "COMPILER_RT_HWASAN_WITH_INTERCEPTORS", W("OFF"))

DoBuild_CompilerRTBuilder_cmake_defines(self, cfg) ==
  DoBuild_CompilerRTBuilder_layer(self, cfg, LLVMRuntimeBuilder_cmake_defines(self, cfg))

CompilerRTHostI386Builder_cmake_defines(self, cfg) ==
  Update(LLVMRuntimeBuilder_cmake_defines(self, cfg),
    ("CMAKE_C_COMPILER_TARGET" :> W("i386-linux-gnu"))
    @@ ("COMPILER_RT_INCLUDE_TESTS" :> W("ON"))
    @@ ("COMPILER_RT_ENABLE_WERROR" :> W("ON"))
    @@ ("SANITIZER_CXX_ABI" :> W("libstdc++")))

LibUnwindBuilder_cmake_defines(self, cfg) ==
  Update(LLVMRuntimeBuilder_cmake_defines(self, cfg),
    ("LIBUNWIND_HERMETIC_STATIC_LIBRARY" :>
        IF ~cfg.platform THEN W("TRUE") ELSE W("FALSE"))
    @@ ("LIBUNWIND_ENABLE_SHARED" :> W("FALSE")))

\* a faulty override that starts from an empty dict instead of the parent's
\* result
LibOMPBuilder_cmake_defines_Fresh(self, cfg) ==
  ("OPENMP_ENABLE_LIBOMPTARGET" :> W("FALSE"))
  @@ ("OPENMP_ENABLE_OMPT_TOOLS" :> W("FALSE"))
  @@ ("LIBOMP_ENABLE_SHARED" :> IF is_shared(cfg) THEN W("TRUE") ELSE W("FALSE"))
  @@ ("LIBOMP_LIBFLAGS" :> W("-lm"))
  @@ ("CMAKE_POLICY_DEFAULT_CMP0056" :> W("NEW"))

LibOMPBuilder_cmake_defines(self, cfg) ==
  Update(LLVMRuntimeBuilder_cmake_defines(self, cfg),
    ("OPENMP_ENABLE_LIBOMPTARGET" :> W("FALSE"))
    @@ ("OPENMP_ENABLE_OMPT_TOOLS" :> W("FALSE"))
    @@ ("LIBOMP_ENABLE_SHARED" :> IF is_shared(cfg) THEN W("TRUE") ELSE W("FALSE"))
    @@ ("LIBOMP_LIBFLAGS" :> W("-lm"))
    @@ ("CMAKE_POLICY_DEFAULT_CMP0056" :> W("NEW")))

DoBuild_LibOMPBuilder_cmake_defines(self, cfg) ==
  Update(LLVMRuntimeBuilder_cmake_defines(self, cfg),
    ("CMAKE_POSITION_INDEPENDENT_CODE" :> W("ON"))
    @@ ("OPENMP_ENABLE_LIBOMPTARGET" :> W("FALSE"))
    @@ ("OPENMP_ENABLE_OMPT_TOOLS" :> W("FALSE"))
    @@ ("LIBOMP_ENABLE_SHARED" :> IF is_shared(cfg) THEN W("TRUE") ELSE W("FALSE"))
    @@ ("CMAKE_POLICY_DEFAULT_CMP0056" :> W("NEW")))

PlatformLibcxxAbiBuilder_cmake_defines(self, cfg) ==
  Update(LLVMRuntimeBuilder_cmake_defines(self, cfg),
    ("LIBCXXABI_LIBCXX_INCLUDES" :> W("llvm-project/libcxx/include"))
    @@ ("LIBCXXABI_ENABLE_SHARED" :> W("OFF")))

\* self.cmake_defines
cmake_defines(self, cfg) ==
  CASE self.cls = "CMakeBuilder" -> CMakeBuilder_cmake_defines(self, cfg)
    [] self.cls = "Stage1Builder" -> Stage1Builder_cmake_defines(self, cfg)
    [] self.cls = "Stage2Builder" -> Stage2Builder_cmake_defines(self, cfg)
    [] self.cls = "DoBuild_Stage1Builder" -> DoBuild_Stage1Builder_cmake_defines(self, cfg)
    [] self.cls = "DoBuild_Stage2Builder" -> DoBuild_Stage2Builder_cmake_defines(self, cfg)
    [] self.cls = "BuiltinsBuilder" -> BuiltinsBuilder_cmake_defines(self, cfg)
    [] self.cls = "CompilerRTBuilder" -> CompilerRTBuilder_cmake_defines(self, cfg)
    [] self.cls = "DoBuild_CompilerRTBuilder" ->
         DoBuild_CompilerRTBuilder_cmake_defines(self, cfg)
    [] self.cls = "CompilerRTHostI386Builder" ->
         CompilerRTHostI386Builder_cmake_defines(self, cfg)
    [] self.cls = "LibUnwindBuilder" -> LibUnwindBuilder_cmake_defines(self, cfg)
    [] self.cls = "LibOMPBuilder" -> LibOMPBuilder_cmake_defines(self, cfg)
    [] self.cls = "DoBuild_LibOMPBuilder" -> DoBuild_LibOMPBuilder_cmake_defines(self, cfg)
    [] OTHER -> PlatformLibcxxAbiBuilder_cmake_defines(self, cfg)

(***************************************************************************)
(* The configuration list of each builder class.                           *)
(***************************************************************************)
config_list(cls) ==
  CASE cls \in LLVMClasses -> <<host_config>>
    [] cls = "BuiltinsBuilder" ->
         android_configs(FALSE, "is_exported=False")
         \o <<AndroidConfig("arm", FALSE, "is_exported=True"),
              AndroidConfig("i386", FALSE, "is_exported=True")>>
    [] cls \in {"CompilerRTBuilder", "DoBuild_CompilerRTBuilder", "LibUnwindBuilder"} ->
         android_configs(TRUE, "") \o android_configs(FALSE, "")
    [] cls = "CompilerRTHostI386Builder" -> <<LinuxConfig32>>
    [] cls \in {"LibOMPBuilder", "DoBuild_LibOMPBuilder"} ->
         android_configs(TRUE, "is_shared=False")
         \o android_configs(FALSE, "is_shared=False")
         \o android_configs(FALSE, "is_shared=True")
    [] cls \in {"PlatformLibcxxAbiBuilder", "AsanMapFileBuilder"} ->
         android_configs(TRUE, "")
    [] OTHER -> <<host_config>> \o android_configs(TRUE, "")

\* the class attribute `name`
class_name(cls) ==
  CASE cls \in {"Stage1Builder", "DoBuild_Stage1Builder"} -> "stage1"
    [] cls \in {"Stage2Builder", "DoBuild_Stage2Builder"} -> "stage2"
    [] cls = "BuiltinsBuilder" -> "builtins"
    [] cls \in {"CompilerRTBuilder", "DoBuild_CompilerRTBuilder"} -> "compiler-rt"
    [] cls = "CompilerRTHostI386Builder" -> "compiler-rt-i386-host"
    [] cls = "LibUnwindBuilder" -> "libunwind"
    [] cls \in {"LibOMPBuilder", "DoBuild_LibOMPBuilder"} -> "libomp"
    [] cls = "PlatformLibcxxAbiBuilder" -> "platform-libcxxabi"
    [] OTHER -> ""

CMakeClasses ==
  LLVMClasses \cup {"CMakeBuilder", "BuiltinsBuilder", "CompilerRTBuilder",
                    "DoBuild_CompilerRTBuilder", "CompilerRTHostI386Builder",
                    "LibUnwindBuilder", "LibOMPBuilder", "DoBuild_LibOMPBuilder",
                    "PlatformLibcxxAbiBuilder"}

(***************************************************************************)
(* State.                                                                  *)
(***************************************************************************)
VARIABLES
  args,              \* parse_args(): [flags, build, skip]
  env,               \* the machine: [host_linux, profdata, prior]
  registry,          \* BuilderRegistry
  Builder_toolchain, \* the class attribute Builder.toolchain
  objs,              \* the builder objects main() and build_runtimes() construct
  active,            \* per builder object: index of self._config in config_list
  pc,                \* the statement of main() / build_runtimes() / package_toolchain()
  frame,             \* the running builder or helper: [b, i, step]
  rt_toolchain,      \* the `toolchain` argument of build_runtimes
  installed,         \* install trees that exist on disk
  log,               \* history: every call, return, script and external command
  tree,              \* package_toolchain: the build tree it was given and the
                     \* package install tree it makes of it
  failed,            \* history: "none", "last" (the latest external command exited
                     \* nonzero) or "earlier" (commands were invoked after such a one)
  outcome,           \* "running", "ok" (main returned 0) or "error" (exception)
  sel,               \* flag resolution: the builder object and configuration
  res,               \* flag resolution: the last evaluated properties
  prev,              \* flag resolution: the properties evaluated before `res`
                     \* under the same active configuration
  runtimes_triples,  \* the class attribute LLVMBuilder.runtimes_triples
  calls,             \* registry: history of the configuration calls, and the
                     \* name list of the latest one
  answer             \* registry: the last should_build() query and its result

vars == <<args, env, registry, Builder_toolchain, objs, active, pc, frame,
          rt_toolchain, installed, tree, log, failed, outcome, sel, res, prev,
          runtimes_triples, calls, answer>>

pipeVars == <<args, env, registry, Builder_toolchain, objs, active, pc, frame,
              rt_toolchain, installed, tree, log, failed, outcome>>

flagVars == <<sel, res, prev, runtimes_triples>>

regVars == <<calls, answer>>

\* the boolean options of parse_args
Flags == {"skip_build", "skip_package", "no_strip", "skip_runtimes", "debug",
          "build_instrumented", "no_build_linux", "check_pgo_profile", "no_lto",
          "enable_assertions"}

\* one thing that deviates from a plain run on a clean Linux machine
Atoms ==
  [k : {"flag"}, v : Flags] \cup [k : {"build", "skip"}, v : Names]
  \cup [k : {"env"}, v : {"not_linux", "profdata", "prior"}]

RECURSIVE UpTo(_, _)
UpTo(S, n) ==
  IF n = 0 THEN {{}}
  ELSE LET T == UpTo(S, n - 1) IN T \cup {t \cup {x} : t \in T, x \in S}

Pick(opts, k) == {a.v : a \in {b \in opts : b.k = k}}

\* argparse: --skip-build / --skip-package and --build / --skip are mutually
\* exclusive groups
parse_args(opts) ==
  [flags |-> Pick(opts, "flag"), build |-> Pick(opts, "build"),
   skip |-> Pick(opts, "skip")]

ValidArgs(a) ==
  /\ ~({"skip_build", "skip_package"} \subseteq a.flags)
  /\ a.build = {} \/ a.skip = {}

\* the builder objects: those of main() and build_runtimes(); "solo", one
\* builder of any class built on its own; and "asan-mapfile", a builder that is
\* constructed beside it
InstNames == {"stage1", "stage2", "compiler-rt", "libomp", "solo", "asan-mapfile"}

NoObj == BuilderObj("", "", "")

NoFrame == [b |-> "", i |-> 0, step |-> ""]

\* no package_toolchain call yet
\* the files of bin/ that install_wrappers reads or writes
WrapPaths ==
  {"clang", "clang++", "clang-tidy", "clang.real", "clang++.real",
   "clang-tidy.real", "bisect_driver.py"}

\* what each of them holds: "" when the file is absent
NoWrap == [p \in WrapPaths |-> ""]

NoTree ==
  [build_bin |-> {}, build_lib |-> {}, bin |-> {}, lib |-> {}, wrap |-> NoWrap,
   NOTICE |-> FALSE, VERSION |-> FALSE]

NoSel == [self |-> NoObj, i |-> 0]

RECURSIVE join(_, _)
\* sep.join(ws)
join(sep, ws) ==
  IF ws = <<>> THEN ""
  ELSE IF Len(ws) = 1 THEN ws[1]
  ELSE ws[1] \o sep \o join(sep, Tail(ws))

\* the defines whose value is a ';'-joined list; flag lists are ' '-joined
SemicolonLists ==
  {"LLVM_ENABLE_PROJECTS", "LLVM_ENABLE_RUNTIMES", "LLVM_TARGETS_TO_BUILD"}

\* the value string of a define, as cmake_defines stores it
value_str(key, val) == join(IF key \in SemicolonLists THEN ";" ELSE " ", val)

\* an argument that separates key and value by a blank
define_arg_Blank(key, val) == "-D" \o key \o " " \o val

\* f'-D{key}={val}'
define_arg(key, val) == "-D" \o key \o "=" \o val

\* cmake_cmd.extend(f'-D{key}={val}' for key, val in self.cmake_defines.items())
cmake_cmd(defines) ==
  [k \in DOMAIN defines |-> define_arg(k, value_str(k, defines[k]))]

NoRes ==
  [done |-> FALSE, cflags |-> <<>>, cxxflags |-> <<>>, ldflags |-> <<>>,
   defines |-> <<>>, cmake_cmd |-> <<>>]

NoAnswer == [name |-> "", result |-> TRUE]

PipeIdle ==
  /\ args = parse_args({})
  /\ env = [host_linux |-> TRUE, profdata |-> FALSE, prior |-> FALSE]
  /\ registry = RegistryDefault
  /\ Builder_toolchain = Prebuilt
  /\ objs = [n \in InstNames |-> NoObj]
  /\ active = [n \in InstNames |-> 0]
  /\ pc = "idle"
  /\ frame = NoFrame
  /\ rt_toolchain = ""
  /\ installed = {}
  /\ tree = NoTree
  /\ log = <<>>
  /\ failed = "none"
  /\ outcome = "running"

FlagIdle == sel = NoSel /\ res = NoRes /\ prev = NoRes /\ runtimes_triples = {}

RegIdle == calls = [ops |-> <<>>, last |-> {}] /\ answer = NoAnswer

Init ==
  /\ \E opts \in UpTo(Atoms, MaxOpts) :
       /\ ValidArgs(parse_args(opts))
       /\ args = parse_args(opts)
       /\ env = [host_linux |-> "not_linux" \notin Pick(opts, "env"),
                 profdata |-> "profdata" \in Pick(opts, "env"),
                 prior |-> "prior" \in Pick(opts, "env")]
       /\ installed = IF "prior" \in Pick(opts, "env")
                      THEN {Stage1Install, Stage2Install} ELSE {}
  /\ registry = RegistryDefault
  /\ Builder_toolchain = Prebuilt
  /\ objs = [n \in InstNames |-> NoObj]
  /\ active = [n \in InstNames |-> 0]
  /\ pc = "main"
  /\ frame = NoFrame
  /\ rt_toolchain = ""
  /\ tree = NoTree
  /\ log = <<>>
  /\ failed = "none"
  /\ outcome = "running"
  /\ FlagIdle
  /\ RegIdle

(***************************************************************************)
(* Events of the history log, and the two ways an external command is run. *)
(***************************************************************************)
Ev(k, who, what, cfg, tc, dest) ==
  [k |-> k, who |-> who, what |-> what, cfg |-> cfg, tc |-> tc, dest |-> dest]

Cmd(who, what, cfg, tc, dest) == Ev("cmd", who, what, cfg, tc, dest)

ExitCodes == {0, 1}

Note(rc) ==
  IF failed # "none" THEN "earlier" ELSE IF rc # 0 THEN "last" ELSE "none"

\* an exception propagates out of main(): nothing catches it
Raise ==
  /\ outcome' = "error"
  /\ pc' = "exit"
  /\ frame' = NoFrame

\* utils.check_call / subprocess.check_output: CalledProcessError on nonzero
check_call(e, rc, nextFrame, nextPc) ==
  /\ log' = Append(log, e)
  /\ failed' = Note(rc)
  /\ IF rc # 0 THEN Raise
     ELSE frame' = nextFrame /\ pc' = nextPc /\ outcome' = outcome

\* subprocess.getoutput: the exit status is dropped, the output is the value
getoutput(e, rc) ==
  /\ log' = Append(log, e)
  /\ failed' = Note(rc)

\* a constructor that drops the toolchain it is given
Resolved_ClassOnly(o) == [o EXCEPT !.toolchain = Builder_toolchain]

\* the builder object with Builder.toolchain resolved through the class
Resolved(o) ==
  [o EXCEPT !.toolchain = IF @ = "" THEN Builder_toolchain ELSE @]

Cur == Resolved(objs[frame.b])

\* self._config
CurCfg == config_list(objs[frame.b].cls)[active[frame.b]]

Step(s) == [frame EXCEPT !.step = s]

Running(p) == outcome = "running" /\ pc = p

InFrame(b, s) == outcome = "running" /\ frame.b = b /\ frame.step = s

InBuilder(s) == outcome = "running" /\ frame.b \in InstNames /\ frame.step = s

\* a constructor that leaves _config unbound
Construct_Pending(b, o, nextPc) ==
  /\ objs' = [objs EXCEPT ![b] = o]
  /\ active' = active
  /\ frame' = [b |-> b, i |-> 0, step |-> "gate"]
  /\ pc' = nextPc
  /\ log' = Append(log, Ev("call", b, "build", 0, "", ""))

\* X() followed by X.build(): the constructor binds _config to config_list[0]
Construct(b, o, nextPc) ==
  /\ objs' = [objs EXCEPT ![b] = o]
  /\ active' = [active EXCEPT ![b] = 1]
  /\ frame' = [b |-> b, i |-> 0, step |-> "gate"]
  /\ pc' = nextPc
  /\ log' = Append(log, Ev("call", b, "build", 0, "", ""))

(***************************************************************************)
(* Builder.build() and CMakeBuilder._build_config().                       *)
(***************************************************************************)
\* a faulty wrapper that runs build() whatever the registry answers
Build_Gate_Unfiltered ==
  /\ InBuilder("gate")
  /\ frame' = [frame EXCEPT !.step = "config", !.i = 1]
  /\ UNCHANGED <<flagVars, regVars, tree>>
  /\ UNCHANGED <<args, env, registry, Builder_toolchain, objs, active, pc,
                 rt_toolchain, installed, log, failed, outcome>>

\* BuilderRegistry.register_and_build: the wrapper around build()
Build_Gate ==
  /\ InBuilder("gate")
  /\ frame' = IF should_build(registry, Cur.name)
              THEN [frame EXCEPT !.step = "config", !.i = 1]
              ELSE Step("return")
  /\ UNCHANGED <<flagVars, regVars, tree>>
  /\ UNCHANGED <<args, env, registry, Builder_toolchain, objs, active, pc,
                 rt_toolchain, installed, log, failed, outcome>>

\* builder._is_64bit()
_is_64bit(cfg) == cfg.target_arch \in {"aarch64", "x86_64"}

\* a _build_config that PlatformLibcxxAbiBuilder does not override
FirstStep_Inherited(cls, cfg) ==
  CASE cls = "AutoconfBuilder" -> "touch"
    [] OTHER -> "defines"

\* where the class's _build_config starts: AutoconfBuilder has its own, and
\* PlatformLibcxxAbiBuilder goes straight to install_config for 32-bit targets
FirstStep(cls, cfg) ==
  CASE cls = "AutoconfBuilder" -> "touch"
    [] cls = "PlatformLibcxxAbiBuilder" /\ ~_is_64bit(cfg) -> "install_config"
    [] OTHER -> "defines"

\* for config in self.config_list: self._config = config; self._build_config()
Build_Config ==
  /\ InBuilder("config")
  /\ IF frame.i <= Len(config_list(Cur.cls))
     THEN /\ active' = [active EXCEPT ![frame.b] = frame.i]
          /\ log' = Append(log, Ev("build_config", frame.b, "", active'[frame.b], "", ""))
          /\ frame' = Step(FirstStep(Cur.cls, config_list(Cur.cls)[frame.i]))
     ELSE /\ frame' = Step("install")
          /\ UNCHANGED <<active, log>>
  /\ UNCHANGED <<flagVars, regVars, tree>>
  /\ UNCHANGED <<args, env, registry, Builder_toolchain, objs, pc,
                 rt_toolchain, installed, failed, outcome>>

remove_install_dir(cls) == cls \in {"Stage2Builder", "DoBuild_Stage2Builder"}

\* _build_config: optional removal of the install dir, then self.cmake_defines,
\* whose LLVMBaseBuilder layer runs nproc
BC_Defines ==
  /\ InBuilder("defines")
  /\ installed' = IF remove_install_dir(Cur.cls)
                  THEN installed \ {install_dir(Cur, CurCfg).root}
                  ELSE installed
  /\ IF Cur.cls = "CMakeBuilder"
     THEN UNCHANGED <<log, failed>>
     ELSE \E rc \in ExitCodes :
            getoutput(Cmd(frame.b, "nproc", active[frame.b], "", ""), rc)
  /\ frame' = Step("script")
  /\ UNCHANGED <<flagVars, regVars, tree>>
  /\ UNCHANGED <<args, env, registry, Builder_toolchain, objs, active, pc,
                 rt_toolchain, outcome>>

\* utils.create_script(self.output_dir / 'cmake_invocation.sh', ...)
BC_Script ==
  /\ InBuilder("script")
  /\ log' = Append(log, Ev("script", frame.b, Str(output_dir(Cur, CurCfg)),
                           active[frame.b], "", ""))
  /\ frame' = Step("cmake")
  /\ UNCHANGED <<flagVars, regVars, tree>>
  /\ UNCHANGED <<args, env, registry, Builder_toolchain, objs, active, pc,
                 rt_toolchain, installed, failed, outcome>>

BC_Cmake ==
  /\ InBuilder("cmake")
  /\ \E rc \in ExitCodes :
       check_call(Cmd(frame.b, "cmake", active[frame.b], Cur.toolchain,
                      install_dir(Cur, CurCfg).root),
                  rc, Step("ninja"), pc)
  /\ UNCHANGED <<flagVars, regVars, tree>>
  /\ UNCHANGED <<args, env, registry, Builder_toolchain, objs, active,
                 rt_toolchain, installed>>

\* self._ninja(self.ninja_targets)
BC_Ninja ==
  /\ InBuilder("ninja")
  /\ \E rc \in ExitCodes :
       check_call(Cmd(frame.b, "ninja", active[frame.b], Cur.toolchain, ""),
                  rc, Step("install_config"), pc)
  /\ UNCHANGED <<flagVars, regVars, tree>>
  /\ UNCHANGED <<args, env, registry, Builder_toolchain, objs, active,
                 rt_toolchain, installed>>

\* a faulty loop step that skips every other configuration
NextConfig_Skipping == [frame EXCEPT !.i = @ + 2, !.step = "config"]

NextConfig == [frame EXCEPT !.i = @ + 1, !.step = "config"]

\* LLVMBuilder.install_config: `ninja install`, then _setup_install_dir
LLVM_InstallConfig ==
  /\ InBuilder("install_config")
  /\ Cur.cls \in LLVMClasses
  /\ \E rc \in ExitCodes :
       /\ check_call(Cmd(frame.b, "ninja install", active[frame.b], Cur.toolchain,
                         install_dir(Cur, CurCfg).root),
                     rc, NextConfig, pc)
       /\ installed' = IF rc = 0
                       THEN installed \cup {install_dir(Cur, CurCfg).root}
                       ELSE installed
  /\ UNCHANGED <<flagVars, regVars, tree>>
  /\ UNCHANGED <<args, env, registry, Builder_toolchain, objs, active, rt_toolchain>>

\* do_build.CompilerRTBuilder.install_config: `ninja install`, libFuzzer.a, and
\* for the NDK configurations the copy into self.toolchain.path/runtimes_ndk_cxx
CompilerRT_InstallConfig ==
  /\ InBuilder("install_config")
  /\ Cur.cls \in {"CompilerRTBuilder", "DoBuild_CompilerRTBuilder"}
  /\ \E rc \in ExitCodes :
       LET e == Cmd(frame.b, "ninja install", active[frame.b], Cur.toolchain,
                    install_dir(Cur, CurCfg).root)
       IN IF rc # 0 \/ CurCfg.platform
          THEN check_call(e, rc, NextConfig, pc)
          ELSE /\ log' = log \o <<e, Ev("copy", frame.b, "runtimes_ndk_cxx",
                                        active[frame.b], "",
                                        IF Cur.cls = "DoBuild_CompilerRTBuilder"
                                        THEN Cur.toolchain
                                        ELSE Cur.output_toolchain)>>
               /\ failed' = Note(rc)
               /\ frame' = NextConfig
               /\ UNCHANGED <<pc, outcome>>
  /\ UNCHANGED <<flagVars, regVars, tree>>
  /\ UNCHANGED <<args, env, registry, Builder_toolchain, objs, active,
                 rt_toolchain, installed>>

\* do_build.LibOMPBuilder.install_config: a manual copy, no external command
LibOMP_InstallConfig ==
  /\ InBuilder("install_config")
  /\ Cur.cls \in {"LibOMPBuilder", "DoBuild_LibOMPBuilder"}
  /\ log' = Append(log, Ev("copy", frame.b, "libomp", active[frame.b], "",
                           install_dir(Cur, CurCfg).root))
  /\ frame' = NextConfig
  /\ UNCHANGED <<flagVars, regVars, tree>>
  /\ UNCHANGED <<args, env, registry, Builder_toolchain, objs, active, pc,
                 rt_toolchain, installed, failed, outcome>>

\* self.install(): Builder.install does nothing; do_build.CompilerRTBuilder
\* copies the fuzzer headers below self.toolchain.path
Build_Install ==
  /\ InBuilder("install")
  /\ log' = Append(log, Ev("install", frame.b, "", 0, "",
                           CASE Cur.cls = "DoBuild_CompilerRTBuilder" -> Cur.toolchain
                             [] Cur.cls = "CompilerRTBuilder" -> Cur.output_toolchain
                             [] OTHER -> ""))
  /\ frame' = Step("return")
  /\ UNCHANGED <<flagVars, regVars, tree>>
  /\ UNCHANGED <<args, env, registry, Builder_toolchain, objs, active, pc,
                 rt_toolchain, installed, failed, outcome>>

\* a faulty continuation that starts the runtimes right after stage1
After_Reordered(p) ==
  CASE p = "stage1.build" -> "runtimes"
    [] p = "stage2.build" -> "runtimes"
    [] p = "compiler-rt.build" -> "rt.i686"
    [] p = "solo.build" -> "mapfile"
    [] OTHER -> "rt.asan"

\* the statement of the caller that follows X.build()
After(p) ==
  CASE p = "stage1.build" -> "stage2"
    [] p = "stage2.build" -> "runtimes"
    [] p = "compiler-rt.build" -> "rt.i686"
    [] p = "solo.build" -> "mapfile"
    [] OTHER -> "rt.asan"

Build_Return ==
  /\ InBuilder("return")
  /\ log' = Append(log, Ev("ret", frame.b, "build", 0, "", ""))
  /\ frame' = NoFrame
  /\ pc' = After(pc)
  /\ UNCHANGED <<flagVars, regVars, tree>>
  /\ UNCHANGED <<args, env, registry, Builder_toolchain, objs, active,
                 rt_toolchain, installed, failed, outcome>>

(***************************************************************************)
(* main() of do_build.py.                                                  *)
(***************************************************************************)
need_host == "no_build_linux" \notin args.flags

instrumented == "build_instrumented" \in args.flags

\* a driver that runs on any host
Main_Configure_AnyHost ==
  /\ Running("main")
  /\ registry' = IF "skip_build" \in args.flags THEN add_filter_false
                 ELSE IF args.skip # {} THEN add_skips(args.skip)
                 ELSE IF args.build # {} THEN add_builds(args.build)
                 ELSE registry
  /\ pc' = "stage1"
  /\ UNCHANGED <<frame, outcome>>
  /\ UNCHANGED <<flagVars, regVars, tree>>
  /\ UNCHANGED <<args, env, Builder_toolchain, objs, active, rt_toolchain,
                 installed, log, failed>>

\* a driver in which --skip and --build come before --skip-build
Main_Configure_SkipFirst ==
  /\ Running("main")
  /\ registry' = IF args.skip # {} THEN add_skips(args.skip)
                 ELSE IF args.build # {} THEN add_builds(args.build)
                 ELSE IF "skip_build" \in args.flags THEN add_filter_false
                 ELSE registry
  /\ IF ~env.host_linux THEN Raise
     ELSE pc' = "stage1" /\ UNCHANGED <<frame, outcome>>
  /\ UNCHANGED <<flagVars, regVars, tree>>
  /\ UNCHANGED <<args, env, Builder_toolchain, objs, active, rt_toolchain,
                 installed, log, failed>>

\* registry configuration and the host check
Main_Configure ==
  /\ Running("main")
  /\ registry' = IF "skip_build" \in args.flags THEN add_filter_false
                 ELSE IF args.skip # {} THEN add_skips(args.skip)
                 ELSE IF args.build # {} THEN add_builds(args.build)
                 ELSE registry
  /\ IF ~env.host_linux THEN Raise
     ELSE pc' = "stage1" /\ UNCHANGED <<frame, outcome>>
  /\ UNCHANGED <<flagVars, regVars, tree>>
  /\ UNCHANGED <<args, env, Builder_toolchain, objs, active, rt_toolchain,
                 installed, log, failed>>

\* the Stage1Builder main() sets up under the arguments a
main_stage1(a) ==
  [BuilderObj("DoBuild_Stage1Builder", "stage1", "") EXCEPT
     !.build_llvm_tools = "build_instrumented" \in a.flags \/ "debug" \in a.flags,
     !.build_all_targets = "debug" \in a.flags \/ "build_instrumented" \in a.flags]

\* a driver whose stage1 does not look at --debug
Main_Stage1_DebugBlind ==
  /\ Running("stage1")
  /\ Construct("stage1", main_stage1([args EXCEPT !.flags = @ \ {"debug"}]),
               "stage1.build")
  /\ UNCHANGED <<flagVars, regVars, tree>>
  /\ UNCHANGED <<args, env, registry, Builder_toolchain, rt_toolchain,
                 installed, failed, outcome>>

\* stage1 = Stage1Builder(); ...; stage1.build()
Main_Stage1 ==
  /\ Running("stage1")
  /\ Construct("stage1", main_stage1(args), "stage1.build")
  /\ UNCHANGED <<flagVars, regVars, tree>>
  /\ UNCHANGED <<args, env, registry, Builder_toolchain, rt_toolchain,
                 installed, failed, outcome>>

\* a driver that builds stage2 whether or not the host component is wanted
Main_Stage2_Always ==
  /\ Running("stage2")
  /\ IF FALSE
     THEN /\ pc' = "package"
          /\ UNCHANGED <<objs, active, frame, log, outcome>>
     ELSE IF ~env.profdata /\ "check_pgo_profile" \in args.flags
     THEN Raise /\ UNCHANGED <<objs, active, log>>
     ELSE /\ Construct("stage2",
                       [BuilderObj("DoBuild_Stage2Builder", "stage2", "") EXCEPT
                          !.debug_build = "debug" \in args.flags,
                          !.enable_assertions = "enable_assertions" \in args.flags,
                          !.lto = "no_lto" \notin args.flags,
                          !.build_instrumented = instrumented,
                          !.profdata_file = env.profdata],
                       "stage2.build")
          /\ outcome' = outcome
  /\ UNCHANGED <<flagVars, regVars, tree>>
  /\ UNCHANGED <<args, env, registry, Builder_toolchain, rt_toolchain,
                 installed, failed>>

\* if need_host: the profdata check, stage2 = Stage2Builder(); ...; stage2.build()
Main_Stage2 ==
  /\ Running("stage2")
  /\ IF ~need_host
     THEN /\ pc' = "package"
          /\ UNCHANGED <<objs, active, frame, log, outcome>>
     ELSE IF ~env.profdata /\ "check_pgo_profile" \in args.flags
     THEN Raise /\ UNCHANGED <<objs, active, log>>
     ELSE /\ Construct("stage2",
                       [BuilderObj("DoBuild_Stage2Builder", "stage2", "") EXCEPT
                          !.debug_build = "debug" \in args.flags,
                          !.enable_assertions = "enable_assertions" \in args.flags,
                          !.lto = "no_lto" \notin args.flags,
                          !.build_instrumented = instrumented,
                          !.profdata_file = env.profdata],
                       "stage2.build")
          /\ outcome' = outcome
  /\ UNCHANGED <<flagVars, regVars, tree>>
  /\ UNCHANGED <<args, env, registry, Builder_toolchain, rt_toolchain,
                 installed, failed>>

\* the stage whose install tree is the runtimes_toolchain under the arguments a
runtimes_stage(a) ==
  IF "debug" \in a.flags \/ "build_instrumented" \in a.flags
  THEN "stage1" ELSE "stage2"

\* if do_runtimes: build_runtimes(runtimes_toolchain, args)
Main_Runtimes ==
  /\ Running("runtimes")
  /\ IF "skip_runtimes" \in args.flags
     THEN pc' = "package" /\ UNCHANGED rt_toolchain
     ELSE /\ pc' = "rt.sysroot"
          /\ rt_toolchain' = Str(install_dir(Resolved(objs[runtimes_stage(args)]),
                                              host_config))
  /\ UNCHANGED <<flagVars, regVars, tree>>
  /\ UNCHANGED <<args, env, registry, Builder_toolchain, objs, active, frame,
                 installed, log, failed, outcome>>

(***************************************************************************)
(* build_runtimes(toolchain) and the function-style steps it runs.         *)
(***************************************************************************)
Enter(b, s, nextPc) ==
  /\ frame' = [b |-> b, i |-> 1, step |-> s]
  /\ log' = Append(log, Ev("call", b, "", 0, "", ""))
  /\ pc' = nextPc

\* the (arch, target) list of create_sysroots
SysrootArchs == <<"arm", "aarch64", "x86_64", "i386">>

RT_Sysroots ==
  /\ Running("rt.sysroot")
  /\ IF should_build(registry, "sysroot")
     THEN Enter("sysroot", "stub", "rt.sysroot.run")
     ELSE pc' = "rt.version" /\ UNCHANGED <<frame, log>>
  /\ UNCHANGED <<flagVars, regVars, tree>>
  /\ UNCHANGED <<args, env, registry, Builder_toolchain, objs, active,
                 rt_toolchain, installed, failed, outcome>>

NextArch ==
  IF frame.i < Len(SysrootArchs)
  THEN [frame EXCEPT !.i = @ + 1, !.step = "stub"]
  ELSE Step("return")

\* the platform libc++.so stub, linked by out/stage2-install/bin/clang
Sysroot_Stub ==
  /\ InFrame("sysroot", "stub")
  /\ \E rc \in ExitCodes :
       check_call(Cmd("sysroot", "clang", frame.i, Stage2Install, ""), rc,
                  IF SysrootArchs[frame.i] \in {"aarch64", "x86_64"}
                  THEN Step("cmake") ELSE NextArch,
                  pc)
  /\ UNCHANGED <<flagVars, regVars, tree>>
  /\ UNCHANGED <<args, env, registry, Builder_toolchain, objs, active,
                 rt_toolchain, installed>>

\* build_libcxxabi(out/stage2-install, arch): invoke_cmake(..., install=False)
Sysroot_Cmake ==
  /\ InFrame("sysroot", "cmake")
  /\ \E rc \in ExitCodes :
       check_call(Cmd("sysroot", "cmake", frame.i, Stage2Install, ""), rc,
                  Step("ninja"), pc)
  /\ UNCHANGED <<flagVars, regVars, tree>>
  /\ UNCHANGED <<args, env, registry, Builder_toolchain, objs, active,
                 rt_toolchain, installed>>

Sysroot_Ninja ==
  /\ InFrame("sysroot", "ninja")
  /\ \E rc \in ExitCodes :
       check_call(Cmd("sysroot", "ninja", frame.i, Stage2Install, ""), rc,
                  NextArch, pc)
  /\ UNCHANGED <<flagVars, regVars, tree>>
  /\ UNCHANGED <<args, env, registry, Builder_toolchain, objs, active,
                 rt_toolchain, installed>>

\* extract_clang_version(toolchain) reads include/clang/Basic/Version.inc of
\* the install tree
RT_Version ==
  /\ Running("rt.version")
  /\ IF rt_toolchain \in installed
     THEN pc' = "rt.compiler-rt" /\ UNCHANGED <<frame, outcome>>
     ELSE Raise
  /\ UNCHANGED <<flagVars, regVars, tree>>
  /\ UNCHANGED <<args, env, registry, Builder_toolchain, objs, active,
                 rt_toolchain, installed, log, failed>>

\* CompilerRTBuilder().build()
RT_CompilerRT ==
  /\ Running("rt.compiler-rt")
  /\ Construct("compiler-rt",
               BuilderObj("DoBuild_CompilerRTBuilder", "compiler-rt", ""),
               "compiler-rt.build")
  /\ UNCHANGED <<flagVars, regVars, tree>>
  /\ UNCHANGED <<args, env, registry, Builder_toolchain, rt_toolchain,
                 installed, failed, outcome>>

\* if BuilderRegistry.should_build('compiler-rt'): build_crts_host_i686(...)
\* a faulty step that builds the host i686 crts without asking the registry
RT_HostI686_Unfiltered ==
  /\ Running("rt.i686")
  /\ Enter("crt-host-i686", "defines", "rt.i686.run")
  /\ UNCHANGED <<flagVars, regVars, tree>>
  /\ UNCHANGED <<args, env, registry, Builder_toolchain, objs, active,
                 rt_toolchain, installed, failed, outcome>>

RT_HostI686 ==
  /\ Running("rt.i686")
  /\ IF should_build(registry, "compiler-rt")
     THEN Enter("crt-host-i686", "defines", "rt.i686.run")
     ELSE pc' = "rt.libomp" /\ UNCHANGED <<frame, log>>
  /\ UNCHANGED <<flagVars, regVars, tree>>
  /\ UNCHANGED <<args, env, registry, Builder_toolchain, objs, active,
                 rt_toolchain, installed, failed, outcome>>

\* base_cmake_defines(): nproc is run twice through getoutput
I686_Defines ==
  /\ InFrame("crt-host-i686", "defines")
  /\ \E rc1 \in ExitCodes, rc2 \in ExitCodes :
       /\ log' = log \o <<Cmd("crt-host-i686", "nproc", 0, "", ""),
                          Cmd("crt-host-i686", "nproc", 0, "", "")>>
       /\ failed' = IF failed # "none" \/ rc1 # 0 THEN "earlier"
                    ELSE IF rc2 # 0 THEN "last" ELSE "none"
  /\ frame' = Step("cmake")
  /\ UNCHANGED <<flagVars, regVars, tree>>
  /\ UNCHANGED <<args, env, registry, Builder_toolchain, objs, active, pc,
                 rt_toolchain, installed, outcome>>

\* invoke_cmake: cmake, ninja, ninja install; no invocation script is written
I686_Cmake ==
  /\ InFrame("crt-host-i686", "cmake")
  /\ \E rc \in ExitCodes :
       check_call(Cmd("crt-host-i686", "cmake", 0, rt_toolchain, rt_toolchain),
                  rc, Step("ninja"), pc)
  /\ UNCHANGED <<flagVars, regVars, tree>>
  /\ UNCHANGED <<args, env, registry, Builder_toolchain, objs, active,
                 rt_toolchain, installed>>

I686_Ninja ==
  /\ InFrame("crt-host-i686", "ninja")
  /\ \E rc \in ExitCodes :
       check_call(Cmd("crt-host-i686", "ninja", 0, rt_toolchain, ""),
                  rc, Step("install"), pc)
  /\ UNCHANGED <<flagVars, regVars, tree>>
  /\ UNCHANGED <<args, env, registry, Builder_toolchain, objs, active,
                 rt_toolchain, installed>>

I686_Install ==
  /\ InFrame("crt-host-i686", "install")
  /\ \E rc \in ExitCodes :
       check_call(Cmd("crt-host-i686", "ninja install", 0, rt_toolchain, rt_toolchain),
                  rc, Step("return"), pc)
  /\ UNCHANGED <<flagVars, regVars, tree>>
  /\ UNCHANGED <<args, env, registry, Builder_toolchain, objs, active,
                 rt_toolchain, installed>>

\* LibOMPBuilder().build()
RT_LibOMP ==
  /\ Running("rt.libomp")
  /\ Construct("libomp", BuilderObj("DoBuild_LibOMPBuilder", "libomp", ""),
               "libomp.build")
  /\ UNCHANGED <<flagVars, regVars, tree>>
  /\ UNCHANGED <<args, env, registry, Builder_toolchain, rt_toolchain,
                 installed, failed, outcome>>

\* build_sanitizer_map_files: (san, arch) in call order
SanitizerMaps ==
  <<"asan-aarch64", "ubsan_standalone-aarch64", "asan-arm", "ubsan_standalone-arm",
    "asan-i686", "ubsan_standalone-i686", "asan-x86_64", "ubsan_standalone-x86_64",
    "hwasan-aarch64">>

\* if should_build('asan'): build_asan_test, build_sanitizer_map_files, ...
RT_Asan ==
  /\ Running("rt.asan")
  /\ IF should_build(registry, "asan")
     THEN Enter("asan", "nm", "rt.asan.run")
     ELSE pc' = "package" /\ UNCHANGED <<frame, log>>
  /\ UNCHANGED <<flagVars, regVars, tree>>
  /\ UNCHANGED <<args, env, registry, Builder_toolchain, objs, active,
                 rt_toolchain, installed, failed, outcome>>

\* mapfile.create_map_file: check_output([Builder.toolchain.nm, ...])
Asan_Nm ==
  /\ InFrame("asan", "nm")
  /\ \E rc \in ExitCodes :
       check_call(Cmd("asan", "nm", frame.i, Builder_toolchain, rt_toolchain), rc,
                  IF frame.i < Len(SanitizerMaps)
                  THEN [frame EXCEPT !.i = @ + 1] ELSE Step("return"),
                  pc)
  /\ UNCHANGED <<flagVars, regVars, tree>>
  /\ UNCHANGED <<args, env, registry, Builder_toolchain, objs, active,
                 rt_toolchain, installed>>

(***************************************************************************)
(* package_toolchain(stage2_install, ...).                                 *)
(***************************************************************************)
\* files a build tree's bin directory may hold, in os.listdir order: the
\* compiler drivers install_wrappers wraps, a necessary script, an unnecessary
\* binary and a necessary binary
BinFiles == <<"clang", "clang++", "clang-tidy", "scan-build", "llvm-tblgen", "llvm-ar">>

necessary_bin_files == {"clang", "clang++", "clang-tidy", "scan-build", "llvm-ar"}

script_bins == {"scan-build"}

\* files a build tree's lib64 directory may hold
LibFiles == {"libc++.a", "libc++abi.a", "libLLVM.a"}

necessary_lib_files == {"libc++.a", "libc++abi.a"}

\* at most this many of the necessary files are absent from a build tree
MaxAbsent == 1

Range(s) == {s[i] : i \in DOMAIN s}

\* the build trees stage2's install step may have left
BuildTrees ==
  {t \in [bin : SUBSET Range(BinFiles), lib : SUBSET LibFiles] :
     Cardinality((necessary_bin_files \ t.bin) \cup (necessary_lib_files \ t.lib))
       <= MaxAbsent}

do_strip_host_package ==
  "no_strip" \notin args.flags /\ "debug" \notin args.flags

\* raise RuntimeError('Did not find %s in %s' % ...)
NotFound(what) ==
  /\ log' = Append(log, Ev("error", "package", what, 0, "", ""))
  /\ Raise

\* what a tree copied from a build holds in the files of WrapPaths: the
\* compiler binaries, and clang++ as the build's link to clang
bin_contents(bin) ==
  [p \in WrapPaths |->
     IF p \notin bin THEN ""
     ELSE IF p = "clang++" THEN "->clang"
     ELSE p]

\* if do_package and need_host: package_toolchain(...), up to the copy of the
\* stage2 install tree into the package install dir
Main_Package ==
  /\ Running("package")
  /\ IF "skip_package" \in args.flags \/ ~need_host
     THEN pc' = "done" /\ UNCHANGED <<frame, log, outcome, tree>>
     ELSE IF Stage2Install \in installed
     THEN /\ Enter("package", "bins", "package.run")
          /\ outcome' = outcome
          /\ \E t \in BuildTrees :
               tree' = [build_bin |-> t.bin, build_lib |-> t.lib,
                        bin |-> t.bin, lib |-> t.lib, wrap |-> bin_contents(t.bin),
                        NOTICE |-> FALSE, VERSION |-> FALSE]
     ELSE Raise /\ log' = log /\ tree' = tree
  /\ UNCHANGED <<flagVars, regVars>>
  /\ UNCHANGED <<args, env, registry, Builder_toolchain, objs, active,
                 rt_toolchain, installed, failed>>

\* the positions in BinFiles of the files the loop over bin/ strips
Stripped(bin, strip) ==
  LET Strips(i) == /\ strip
                   /\ BinFiles[i] \in bin \cap necessary_bin_files
                   /\ BinFiles[i] \notin script_bins
  IN SelectSeq([i \in DOMAIN BinFiles |-> i], Strips)

\* a loop over bin/ that strips but removes nothing
Pkg_Bin_Keeping ==
  /\ InFrame("package", "bins")
  /\ LET todo == Stripped(tree.bin, do_strip_host_package)
     IN \E n \in 0..Len(todo) :
          LET failing == n < Len(todo)
              ran == SubSeq(todo, 1, IF failing THEN n + 1 ELSE n)
          IN /\ log' = log \o [j \in DOMAIN ran |->
                                 Cmd("package", "strip", ran[j], "", "")]
             /\ tree' = tree
             /\ IF failing
                THEN failed' = Note(1) /\ Raise
                ELSE /\ failed' = IF ran = <<>> THEN failed ELSE Note(0)
                     /\ frame' = Step("checkbins")
                     /\ UNCHANGED <<pc, outcome>>
  /\ UNCHANGED <<flagVars, regVars>>
  /\ UNCHANGED <<args, env, registry, Builder_toolchain, objs, active,
                 rt_toolchain, installed>>

\* the loop over os.listdir(bin_dir): a file that is not necessary is removed,
\* a necessary one that is no script is stripped when strip is set; the loop
\* ends early at the first strip that exits nonzero
Pkg_Bin ==
  /\ InFrame("package", "bins")
  /\ LET todo == Stripped(tree.bin, do_strip_host_package)
     IN \E n \in 0..Len(todo) :
          LET failing == n < Len(todo)
              ran == SubSeq(todo, 1, IF failing THEN n + 1 ELSE n)
              seen == IF failing THEN 1..todo[n + 1] ELSE DOMAIN BinFiles
          IN /\ log' = log \o [j \in DOMAIN ran |->
                                 Cmd("package", "strip", ran[j], "", "")]
             /\ tree' = [tree EXCEPT !.bin =
                           @ \ {BinFiles[i] : i \in {h \in seen :
                                   BinFiles[h] \notin necessary_bin_files}}]
             /\ IF failing
                THEN failed' = Note(1) /\ Raise
                ELSE /\ failed' = IF ran = <<>> THEN failed ELSE Note(0)
                     /\ frame' = Step("checkbins")
                     /\ UNCHANGED <<pc, outcome>>
  /\ UNCHANGED <<flagVars, regVars>>
  /\ UNCHANGED <<args, env, registry, Builder_toolchain, objs, active,
                 rt_toolchain, installed>>

\* every necessary binary must be a file of bin/; then
\* remove_static_libraries(lib_dir, necessary_lib_files)
Pkg_CheckBins ==
  /\ InFrame("package", "checkbins")
  /\ IF necessary_bin_files \subseteq tree.bin
     THEN /\ tree' = [tree EXCEPT !.lib = @ \cap necessary_lib_files]
          /\ frame' = Step("wrappers")
          /\ UNCHANGED <<log, pc, outcome>>
     ELSE NotFound("bin") /\ tree' = tree
  /\ UNCHANGED <<flagVars, regVars>>
  /\ UNCHANGED <<args, env, registry, Builder_toolchain, objs, active,
                 rt_toolchain, installed, failed>>

\* what install_wrappers leaves in bin/ beside the wrapped drivers
WrapperFiles == {"clang.real", "clang++.real", "clang-tidy.real", "bisect_driver.py"}

\* shutil.move(src, dst) onto a path that does not exist
move(f, src, dst) == [f EXCEPT ![dst] = f[src], ![src] = ""]

\* an install_wrappers that renames clang and clang-tidy whether or not the
\* *.real files are there
install_wrappers_Moving(f) ==
  LET f1 == move(f, "clang", "clang.real")
      f2 == move(f1, "clang-tidy", "clang-tidy.real")
      f3 == [p \in WrapPaths |->
               IF p \in {"clang", "clang++", "clang-tidy"} THEN "wrapper"
               ELSE IF p = "clang++.real" THEN "->clang.real"
               ELSE IF p = "bisect_driver.py" THEN p
               ELSE f2[p]]
  IN IF f["clang"] = "" THEN [raised |-> TRUE, files |-> f]
     ELSE IF f1["clang-tidy"] = "" THEN [raised |-> TRUE, files |-> f1]
     ELSE [raised |-> FALSE, files |-> f3]

\* install_wrappers after the wrapper is built, on the files of bin/: clang and
\* clang-tidy are renamed to *.real unless the *.real file is there (shutil.move
\* raises when there is nothing to rename); clang, clang++, clang-tidy and
\* clang++.real are removed; clang++.real is linked to clang.real; the wrapper
\* is copied to clang, clang++ and clang-tidy; bisect_driver.py is installed
install_wrappers(f) ==
  LET f1 == IF f["clang.real"] = "" THEN move(f, "clang", "clang.real") ELSE f
      f2 == IF f1["clang-tidy.real"] = ""
            THEN move(f1, "clang-tidy", "clang-tidy.real") ELSE f1
      f3 == [p \in WrapPaths |->
               IF p \in {"clang", "clang++", "clang-tidy"} THEN "wrapper"
               ELSE IF p = "clang++.real" THEN "->clang.real"
               ELSE IF p = "bisect_driver.py" THEN p
               ELSE f2[p]]
  IN IF f["clang.real"] = "" /\ f["clang"] = ""
     THEN [raised |-> TRUE, files |-> f]
     ELSE IF f1["clang-tidy.real"] = "" /\ f1["clang-tidy"] = ""
     THEN [raised |-> TRUE, files |-> f1]
     ELSE [raised |-> FALSE, files |-> f3]

\* the names of the files of bin/ once the files of WrapPaths hold f
bin_names(bin, f) == (bin \ WrapPaths) \cup {p \in WrapPaths : f[p] # ""}

\* install_wrappers(install_dir): the compiler wrapper's build script is run,
\* then the files of bin/ are rewritten
InstallWrappers(nextFrame) ==
  \E rc \in ExitCodes :
    LET e == Cmd("package", "wrapper build.py", 0, "", "")
        r == install_wrappers(tree.wrap)
        after == [tree EXCEPT !.wrap = r.files, !.bin = bin_names(@, r.files)]
    IN IF rc = 0 /\ r.raised
       THEN /\ log' = Append(log, e)
            /\ failed' = Note(0)
            /\ Raise
            /\ tree' = after
       ELSE /\ check_call(e, rc, nextFrame, pc)
            /\ tree' = IF rc = 0 THEN after ELSE tree

Pkg_Wrappers ==
  /\ InFrame("package", "wrappers")
  /\ InstallWrappers(Step("normalize"))
  /\ UNCHANGED <<flagVars, regVars>>
  /\ UNCHANGED <<args, env, registry, Builder_toolchain, objs, active,
                 rt_toolchain, installed>>

\* a packaging that does not look for the necessary libraries
Pkg_Normalize_Lenient ==
  /\ InFrame("package", "normalize")
  /\ \E normal \in BOOLEAN :
       IF ~normal
       THEN Raise /\ log' = log
       ELSE frame' = Step("stamp") /\ UNCHANGED <<log, pc, outcome>>
  /\ UNCHANGED <<flagVars, regVars, tree>>
  /\ UNCHANGED <<args, env, registry, Builder_toolchain, objs, active,
                 rt_toolchain, installed, failed>>

\* normalize_llvm_host_libs raises when a shared library of lib64/ is not laid
\* out as it expects; then every necessary library must be a file of lib64/
Pkg_Normalize ==
  /\ InFrame("package", "normalize")
  /\ \E normal \in BOOLEAN :
       IF ~normal
       THEN Raise /\ log' = log
       ELSE IF necessary_lib_files \subseteq tree.lib
       THEN frame' = Step("stamp") /\ UNCHANGED <<log, pc, outcome>>
       ELSE NotFound("lib64")
  /\ UNCHANGED <<flagVars, regVars, tree>>
  /\ UNCHANGED <<args, env, registry, Builder_toolchain, objs, active,
                 rt_toolchain, installed, failed>>

\* install_license_files(install_dir) and the VERSION file
Pkg_Stamp ==
  /\ InFrame("package", "stamp")
  /\ tree' = [tree EXCEPT !.NOTICE = TRUE, !.VERSION = TRUE]
  /\ frame' = Step("tar")
  /\ UNCHANGED <<flagVars, regVars>>
  /\ UNCHANGED <<args, env, registry, Builder_toolchain, objs, active, pc,
                 rt_toolchain, installed, log, failed, outcome>>

Pkg_Tar ==
  /\ InFrame("package", "tar")
  /\ \E rc \in ExitCodes :
       check_call(Cmd("package", "tar", 0, "", ""), rc, Step("return"), pc)
  /\ UNCHANGED <<flagVars, regVars, tree>>
  /\ UNCHANGED <<args, env, registry, Builder_toolchain, objs, active,
                 rt_toolchain, installed>>

Helpers == {"sysroot", "crt-host-i686", "asan", "package"}

HelperAfter(b) ==
  CASE b = "sysroot" -> "rt.version"
    [] b = "crt-host-i686" -> "rt.libomp"
    [] b = "asan" -> "package"
    [] OTHER -> "done"

\* a function-style step returns to its caller
Helper_Return ==
  /\ outcome = "running"
  /\ frame.b \in Helpers
  /\ frame.step = "return"
  /\ log' = Append(log, Ev("ret", frame.b, "", 0, "", ""))
  /\ frame' = NoFrame
  /\ pc' = HelperAfter(frame.b)
  /\ UNCHANGED <<flagVars, regVars, tree>>
  /\ UNCHANGED <<args, env, registry, Builder_toolchain, objs, active,
                 rt_toolchain, installed, failed, outcome>>

\* return 0
Main_Return ==
  /\ Running("done")
  /\ outcome' = "ok"
  /\ pc' = "exit"
  /\ UNCHANGED <<flagVars, regVars, tree>>
  /\ UNCHANGED <<args, env, registry, Builder_toolchain, objs, active, frame,
                 rt_toolchain, installed, log, failed>>

Next ==
  \/ Main_Configure
  \/ Main_Stage1
  \/ Main_Stage2
  \/ Main_Runtimes
  \/ Main_Package
  \/ Main_Return
  \/ Build_Gate
  \/ Build_Config
  \/ BC_Defines
  \/ BC_Script
  \/ BC_Cmake
  \/ BC_Ninja
  \/ LLVM_InstallConfig
  \/ CompilerRT_InstallConfig
  \/ LibOMP_InstallConfig
  \/ Build_Install
  \/ Build_Return
  \/ RT_Sysroots
  \/ Sysroot_Stub
  \/ Sysroot_Cmake
  \/ Sysroot_Ninja
  \/ RT_Version
  \/ RT_CompilerRT
  \/ RT_HostI686
  \/ I686_Defines
  \/ I686_Cmake
  \/ I686_Ninja
  \/ I686_Install
  \/ RT_LibOMP
  \/ RT_Asan
  \/ Asan_Nm
  \/ Pkg_Bin
  \/ Pkg_CheckBins
  \/ Pkg_Wrappers
  \/ Pkg_Normalize
  \/ Pkg_Stamp
  \/ Pkg_Tar
  \/ Helper_Return

Spec == Init /\ [][Next]_vars

(***************************************************************************)
(* Flag resolution: any builder class, any of its configurations, any      *)
(* setting of the static fields, and the evaluation of its properties.     *)
(***************************************************************************)
FlagClasses == CMakeClasses \cup {"AutoconfBuilder"}

\* the boolean fields a caller may set on a builder before build()
Fields == {"enable_assertions", "debug_build", "build_instrumented", "no_lto",
           "profdata_file", "build_all_targets", "build_llvm_tools",
           "build_android_targets"}

WithFields(o, fs) ==
  [o EXCEPT !.enable_assertions = "enable_assertions" \in fs,
            !.debug_build = "debug_build" \in fs,
            !.build_instrumented = "build_instrumented" \in fs,
            !.lto = "no_lto" \notin fs,
            !.profdata_file = "profdata_file" \in fs,
            !.build_all_targets = "build_all_targets" \in fs,
            !.build_llvm_tools = "build_llvm_tools" \in fs,
            !.build_android_targets = "build_android_targets" \in fs]

\* the parent classes' cmake_defines results, nearest the root first
DefineLayers(self, cfg) ==
  CASE self.cls = "CMakeBuilder" -> <<>>
    [] self.cls \in LLVMClasses ->
         <<CMakeBuilder_cmake_defines(self, cfg), LLVMBaseBuilder_cmake_defines(self, cfg),
           LLVMBuilder_cmake_defines(self, cfg)>>
    [] OTHER ->
         <<CMakeBuilder_cmake_defines(self, cfg), LLVMBaseBuilder_cmake_defines(self, cfg),
           LLVMRuntimeBuilder_cmake_defines(self, cfg)>>

\* the keys a class removes with `del defines[...]`
DeletedKeys(cls) ==
  IF cls \in {"CompilerRTBuilder", "DoBuild_CompilerRTBuilder"}
  THEN {"CMAKE_SYSTEM_NAME"} ELSE {}

\* self._config of the selected builder
SelCfg == config_list(sel.self.cls)[sel.i]

\* X(toolchain=tc) with some fields set: self._config = self.config_list[0]
FlagInit ==
  /\ PipeIdle
  /\ RegIdle
  /\ \E cls \in FlagClasses, tc \in {Prebuilt, Stage1Install},
        fs \in UpTo(Fields, MaxOpts) :
       sel = [self |-> WithFields(BuilderObj(cls, class_name(cls), tc), fs),
              i |-> 1]
  /\ res = NoRes
  /\ prev = NoRes
  /\ runtimes_triples = {}

\* a faulty evaluation whose LLVM_RUNTIME_TARGETS is read from the class-level
\* set, as it was before this evaluation, instead of the active configuration
Flags_Eval_Stateful ==
  /\ ~prev.done
  /\ prev' = res
  /\ res' = [done |-> TRUE,
             cflags |-> cflags(sel.self, SelCfg),
             cxxflags |-> cxxflags(sel.self, SelCfg),
             ldflags |-> ldflags(sel.self, SelCfg),
             defines |-> IF sel.self.cls \in LLVMClasses
                         THEN PutIf(runtimes_triples = {},
                                    cmake_defines(sel.self, SelCfg),
                                    "LLVM_RUNTIME_TARGETS", <<>>)
                         ELSE IF sel.self.cls \in CMakeClasses
                         THEN cmake_defines(sel.self, SelCfg) ELSE <<>>,
             cmake_cmd |-> IF sel.self.cls \in CMakeClasses
                           THEN cmake_cmd(cmake_defines(sel.self, SelCfg))
                           ELSE <<>>]
  /\ runtimes_triples' =
       IF sel.self.cls \in LLVMClasses
       THEN LLVMBuilder_runtimes_triples(sel.self, SelCfg, runtimes_triples)
       ELSE runtimes_triples
  /\ UNCHANGED <<sel, pipeVars, regVars>>

\* reading self.cflags, self.cxxflags, self.ldflags and self.cmake_defines, and
\* the -D arguments _build_config makes of the defines; the properties may be
\* read again under the same active configuration
Flags_Eval ==
  /\ ~prev.done
  /\ prev' = res
  /\ res' = [done |-> TRUE,
             cflags |-> cflags(sel.self, SelCfg),
             cxxflags |-> cxxflags(sel.self, SelCfg),
             ldflags |-> ldflags(sel.self, SelCfg),
             defines |-> IF sel.self.cls \in CMakeClasses
                         THEN cmake_defines(sel.self, SelCfg) ELSE <<>>,
             cmake_cmd |-> IF sel.self.cls \in CMakeClasses
                           THEN cmake_cmd(cmake_defines(sel.self, SelCfg))
                           ELSE <<>>]
  /\ runtimes_triples' =
       IF sel.self.cls \in LLVMClasses
       THEN LLVMBuilder_runtimes_triples(sel.self, SelCfg, runtimes_triples)
       ELSE runtimes_triples
  /\ UNCHANGED <<sel, pipeVars, regVars>>

\* the same properties read on another builder instance, before or after the
\* selected one reads its own: its results are dropped, what stays is what the
\* evaluation did to the class state
Flags_EvalOther ==
  /\ \E cls \in LLVMClasses \cup {"CompilerRTBuilder"}, tc \in {Prebuilt, Stage1Install} :
       LET other == BuilderObj(cls, class_name(cls), tc)
       IN runtimes_triples' =
            IF cls \in LLVMClasses
            THEN LLVMBuilder_runtimes_triples(other, config_list(cls)[1],
                                              runtimes_triples)
            ELSE runtimes_triples
  /\ runtimes_triples' # runtimes_triples
  /\ UNCHANGED <<sel, res, prev, pipeVars, regVars>>

\* self._config = config: the next configuration of the list becomes active
Flags_NextConfig ==
  /\ res.done
  /\ sel.i < Len(config_list(sel.self.cls))
  /\ sel' = [sel EXCEPT !.i = @ + 1]
  /\ res' = NoRes
  /\ prev' = NoRes
  /\ UNCHANGED <<runtimes_triples, pipeVars, regVars>>

FlagNext == Flags_Eval \/ Flags_EvalOther \/ Flags_NextConfig

SpecFlags == FlagInit /\ [][FlagNext]_vars

(***************************************************************************)
(* One builder of any class, constructed and built on its own.             *)
(***************************************************************************)
\* an install_config that copies by hand where CMakeBuilder runs ninja install
CMake_InstallConfig_Copying ==
  /\ InBuilder("install_config")
  /\ Cur.cls \in {"CMakeBuilder", "CompilerRTHostI386Builder"}
  /\ log' = Append(log, Ev("copy", frame.b, Cur.name, active[frame.b], "", ""))
  /\ frame' = NextConfig
  /\ UNCHANGED <<flagVars, regVars, tree>>
  /\ UNCHANGED <<args, env, registry, Builder_toolchain, objs, active, pc,
                 rt_toolchain, installed, failed, outcome>>

\* CMakeBuilder.install_config, for the classes that do not override it
CMake_InstallConfig ==
  /\ InBuilder("install_config")
  /\ Cur.cls \in {"CMakeBuilder", "CompilerRTHostI386Builder"}
  /\ \E rc \in ExitCodes :
       check_call(Cmd(frame.b, "ninja install", active[frame.b], Cur.toolchain,
                      install_dir(Cur, CurCfg).root),
                  rc, NextConfig, pc)
  /\ UNCHANGED <<flagVars, regVars, tree>>
  /\ UNCHANGED <<args, env, registry, Builder_toolchain, objs, active,
                 rt_toolchain, installed>>

\* install_config of BuiltinsBuilder and LibUnwindBuilder: the library is
\* copied by hand, no command is run
Manual_InstallConfig ==
  /\ InBuilder("install_config")
  /\ Cur.cls \in {"BuiltinsBuilder", "LibUnwindBuilder"}
  /\ log' = Append(log, Ev("copy", frame.b, Cur.name, active[frame.b], "",
                           Cur.output_toolchain))
  /\ frame' = NextConfig
  /\ UNCHANGED <<flagVars, regVars, tree>>
  /\ UNCHANGED <<args, env, registry, Builder_toolchain, objs, active, pc,
                 rt_toolchain, installed, failed, outcome>>

\* install_dir of PlatformLibcxxAbiBuilder.install_config
PlatformLibcxxAbi_install_dir(cfg) ==
  cfg.sysroot \o "/usr/" \o (IF cfg.target_arch = "x86_64" THEN "lib64" ELSE "lib")

\* PlatformLibcxxAbiBuilder.install_config: the static library is copied into
\* the sysroot for a 64-bit target, a linker script is written there for a
\* 32-bit one; the event of the write keeps the text in its tc column
PlatformLibcxxAbi_InstallConfig ==
  /\ InBuilder("install_config")
  /\ Cur.cls = "PlatformLibcxxAbiBuilder"
  /\ log' = Append(log,
               IF _is_64bit(CurCfg)
               THEN Ev("copy", frame.b, "libc++abi.a", active[frame.b], "",
                       PlatformLibcxxAbi_install_dir(CurCfg))
               ELSE Ev("write", frame.b, "libc++abi.so", active[frame.b],
                       "INPUT(-lc++)", PlatformLibcxxAbi_install_dir(CurCfg)))
  /\ frame' = NextConfig
  /\ UNCHANGED <<flagVars, regVars, tree>>
  /\ UNCHANGED <<args, env, registry, Builder_toolchain, objs, active, pc,
                 rt_toolchain, installed, failed, outcome>>

\* a _build_config that leaves the configure-generated files untouched
AC_Touch_Skipping ==
  /\ InBuilder("touch")
  /\ installed' = installed \ {Str(install_dir(Cur, CurCfg))}
  /\ frame' = Step("flagfiles")
  /\ UNCHANGED <<flagVars, regVars, tree>>
  /\ UNCHANGED <<args, env, registry, Builder_toolchain, objs, active, pc,
                 rt_toolchain, failed, outcome, log>>

\* AutoconfBuilder._build_config: the install dir is removed, the output dir
\* made, and aclocal.m4, configure, Makefile.am and **/*.in are touched
AC_Touch ==
  /\ InBuilder("touch")
  /\ installed' = installed \ {Str(install_dir(Cur, CurCfg))}
  /\ log' = Append(log, Ev("touch", frame.b, "configure", active[frame.b], "", ""))
  /\ frame' = Step("flagfiles")
  /\ UNCHANGED <<flagVars, regVars, tree>>
  /\ UNCHANGED <<args, env, registry, Builder_toolchain, objs, active, pc,
                 rt_toolchain, failed, outcome>>

\* the flags are written to output_dir/cflags and output_dir/cxxflags
AC_FlagFiles ==
  /\ InBuilder("flagfiles")
  /\ log' = log \o
       <<Ev("flagfile", frame.b, Str(output_dir(Cur, CurCfg)) \o "/cflags",
            active[frame.b], "", ""),
         Ev("flagfile", frame.b, Str(output_dir(Cur, CurCfg)) \o "/cxxflags",
            active[frame.b], "", "")>>
  /\ frame' = Step("ac_script")
  /\ UNCHANGED <<flagVars, regVars, tree>>
  /\ UNCHANGED <<args, env, registry, Builder_toolchain, objs, active, pc,
                 rt_toolchain, installed, failed, outcome>>

\* utils.create_script(self.output_dir / 'config_invocation.sh', ...)
AC_Script ==
  /\ InBuilder("ac_script")
  /\ log' = Append(log, Ev("script", frame.b, Str(output_dir(Cur, CurCfg)),
                           active[frame.b], "", ""))
  /\ frame' = Step("configure")
  /\ UNCHANGED <<flagVars, regVars, tree>>
  /\ UNCHANGED <<args, env, registry, Builder_toolchain, objs, active, pc,
                 rt_toolchain, installed, failed, outcome>>

AC_Configure ==
  /\ InBuilder("configure")
  /\ \E rc \in ExitCodes :
       check_call(Cmd(frame.b, "configure", active[frame.b], Cur.toolchain,
                      Str(install_dir(Cur, CurCfg))),
                  rc, Step("make"), pc)
  /\ UNCHANGED <<flagVars, regVars, tree>>
  /\ UNCHANGED <<args, env, registry, Builder_toolchain, objs, active,
                 rt_toolchain, installed>>

\* make -j{multiprocessing.cpu_count()}
AC_Make ==
  /\ InBuilder("make")
  /\ \E rc \in ExitCodes :
       check_call(Cmd(frame.b, "make -j", active[frame.b], Cur.toolchain, ""),
                  rc, Step("make_install"), pc)
  /\ UNCHANGED <<flagVars, regVars, tree>>
  /\ UNCHANGED <<args, env, registry, Builder_toolchain, objs, active,
                 rt_toolchain, installed>>

\* AutoconfBuilder.install_config: make install
AC_Install ==
  /\ InBuilder("make_install")
  /\ \E rc \in ExitCodes :
       /\ check_call(Cmd(frame.b, "make install", active[frame.b], Cur.toolchain,
                         Str(install_dir(Cur, CurCfg))),
                     rc, NextConfig, pc)
       /\ installed' = IF rc = 0
                       THEN installed \cup {Str(install_dir(Cur, CurCfg))}
                       ELSE installed
  /\ UNCHANGED <<flagVars, regVars, tree>>
  /\ UNCHANGED <<args, env, registry, Builder_toolchain, objs, active, rt_toolchain>>

\* mapfile.create_map_file, called by the asan-mapfile builder: nm is taken
\* from Builder.toolchain, the class attribute
Create_MapFile ==
  /\ Running("mapfile")
  /\ \E rc \in ExitCodes :
       check_call(Cmd("asan-mapfile", "nm", 0, Builder_toolchain,
                      Resolved(objs["asan-mapfile"]).toolchain),
                  rc, frame, "done")
  /\ UNCHANGED <<flagVars, regVars, tree>>
  /\ UNCHANGED <<args, env, registry, Builder_toolchain, objs, active,
                 rt_toolchain, installed>>

\* builder = X(toolchain) with some fields set; builder.build() is called with
\* the builder's name allowed or skipped by the registry
SoloInit ==
  /\ FlagIdle
  /\ RegIdle
  /\ args = parse_args({})
  /\ env = [host_linux |-> TRUE, profdata |-> FALSE, prior |-> FALSE]
  /\ Builder_toolchain = Prebuilt
  /\ rt_toolchain = ""
  /\ installed = {}
  /\ tree = NoTree
  /\ failed = "none"
  /\ outcome = "running"
  /\ pc = "solo.build"
  /\ frame = [b |-> "solo", i |-> 0, step |-> "gate"]
  /\ log = <<Ev("call", "solo", "build", 0, "", "")>>
  /\ active = [n \in InstNames |-> IF n \in {"solo", "asan-mapfile"} THEN 1 ELSE 0]
  /\ \E cls \in FlagClasses, tc \in {"", Stage1Install},
        fs \in UpTo(Fields, MaxOpts), skipped \in BOOLEAN :
       /\ objs = [n \in InstNames |->
                    CASE n = "solo" ->
                           WithFields(BuilderObj(cls, class_name(cls), tc), fs)
                      [] n = "asan-mapfile" ->
                           BuilderObj("AsanMapFileBuilder", "asan-mapfile", "")
                      [] OTHER -> NoObj]
       /\ registry = IF skipped THEN add_skips({class_name(cls)})
                     ELSE RegistryDefault

SoloNext ==
  \/ Build_Gate
  \/ Build_Config
  \/ BC_Defines
  \/ BC_Script
  \/ BC_Cmake
  \/ BC_Ninja
  \/ LLVM_InstallConfig
  \/ CompilerRT_InstallConfig
  \/ LibOMP_InstallConfig
  \/ CMake_InstallConfig
  \/ Manual_InstallConfig
  \/ PlatformLibcxxAbi_InstallConfig
  \/ AC_Touch
  \/ AC_FlagFiles
  \/ AC_Script
  \/ AC_Configure
  \/ AC_Make
  \/ AC_Install
  \/ Build_Install
  \/ Build_Return
  \/ Create_MapFile
  \/ Main_Return

SpecSolo == SoloInit /\ [][SoloNext]_vars

(***************************************************************************)
(* The registry under arbitrary configuration calls and queries.           *)
(***************************************************************************)
RegInit ==
  /\ PipeIdle
  /\ FlagIdle
  /\ RegIdle

\* the name lists a caller passes
NameLists == UpTo(Names, MaxOpts)

Called(op, names) == [ops |-> Append(calls.ops, op), last |-> names]

Reg_add_builds ==
  /\ Len(calls.ops) < MaxCalls
  /\ \E names \in NameLists :
       /\ registry' = add_builds(names)
       /\ calls' = Called("add_builds", names)
  /\ UNCHANGED <<answer, flagVars, tree, args, env, Builder_toolchain, objs, active, pc,
                 frame, rt_toolchain, installed, log, failed, outcome>>

Reg_add_skips ==
  /\ Len(calls.ops) < MaxCalls
  /\ \E names \in NameLists :
       /\ registry' = add_skips(names)
       /\ calls' = Called("add_skips", names)
  /\ UNCHANGED <<answer, flagVars, tree, args, env, Builder_toolchain, objs, active, pc,
                 frame, rt_toolchain, installed, log, failed, outcome>>

Reg_should_build ==
  /\ \E n \in Names :
       answer' = [name |-> n, result |-> should_build(registry, n)]
  /\ UNCHANGED <<registry, calls, flagVars, tree, args, env, Builder_toolchain, objs,
                 active, pc, frame, rt_toolchain, installed, log, failed, outcome>>

RegNext == Reg_add_builds \/ Reg_add_skips \/ Reg_should_build

SpecReg == RegInit /\ [][RegNext]_vars

(***************************************************************************)
(* Properties of the pipeline.                                             *)
(***************************************************************************)
\* the function-style and builder-style runtime steps of build_runtimes
RuntimeSteps == {"sysroot", "compiler-rt", "crt-host-i686", "libomp", "asan"}

HasEvent(k, who) == \E j \in DOMAIN log : log[j].k = k /\ log[j].who = who

\* _build_config of the running builder is between its entry and its return
InBuildConfig(b) ==
  /\ outcome = "running"
  /\ frame.b = b
  /\ frame.step \in {"defines", "script", "cmake", "ninja", "install_config"}

\* C1: whenever stage2's build runs in the pipeline, the toolchain its builder
\* resolves -- CMAKE_C_COMPILER, CMAKE_CXX_COMPILER and the binutils paths of
\* its cmake defines -- is stage1's installed toolchain, not the prebuilt one.
C1_Stage2UsesStage1Toolchain ==
  InBuildConfig("stage2") =>
    LET d == cmake_defines(Cur, CurCfg)
    IN /\ Cur.toolchain = Stage1Install
       /\ d["CMAKE_C_COMPILER"] = W(Tool(Stage1Install, "clang"))
       /\ d["CMAKE_CXX_COMPILER"] = W(Tool(Stage1Install, "clang++"))
       /\ d["CMAKE_AR"] = W(Tool(Stage1Install, "llvm-ar"))
       /\ d["CMAKE_NM"] = W(Tool(Stage1Install, "llvm-nm"))

\* position of a step in the chain stage1, stage2, runtimes, packaging
Rank(who) ==
  CASE who = "stage1" -> 1
    [] who = "stage2" -> 2
    [] who \in RuntimeSteps -> 3
    [] OTHER -> 4

ReturnedBefore(who, j) ==
  \E i \in 1..(j - 1) : log[i].k = "ret" /\ log[i].who = who

\* C2: the pipeline is a strict sequential chain.  Every step begins only
\* after the step before it has returned (stage2 after stage1's build(), every
\* runtime step after stage2's build(), packaging after the runtime steps), the
\* events of two steps never interleave, and no step runs out of this order.
C2_SequentialChain ==
  /\ log # <<>> => log[1].k = "call"
  /\ \A j \in 2..Len(log) :
       /\ Rank(log[j - 1].who) <= Rank(log[j].who)
       /\ IF log[j].k = "call"
          THEN log[j - 1].k = "ret" /\ log[j - 1].who # log[j].who
          ELSE log[j - 1].who = log[j].who /\ log[j - 1].k # "ret"
       /\ log[j].k = "call" /\ log[j].who = "stage2" => ReturnedBefore("stage1", j)
       /\ log[j].k = "call" /\ log[j].who \in RuntimeSteps =>
            ReturnedBefore("stage2", j)
       /\ log[j].k = "call" /\ log[j].who = "package" =>
            /\ ReturnedBefore("stage2", j)
            /\ \A i \in 1..(j - 1) :
                 log[i].k = "call" /\ log[i].who \in RuntimeSteps =>
                   ReturnedBefore(log[i].who, j)

\* packaging has begun after stage1, stage2 and runtime steps ran and returned
C2_Witness ==
  /\ frame.b = "package"
  /\ HasEvent("ret", "stage1") /\ HasEvent("ret", "stage2")
  /\ HasEvent("ret", "compiler-rt") /\ HasEvent("ret", "asan")
  /\ \E j \in DOMAIN log : log[j].who = "package" /\ log[j].k = "cmd"

\* C3: for every combination of options, every runtime-library build the
\* pipeline runs is built against stage2's toolchain and installs its results
\* into stage2's install tree (the build tree out/ holds temporary installs;
\* the unbound output_toolchain is not held against the claim).
C3_RuntimesUseStage2 ==
  \A j \in DOMAIN log :
    log[j].who \in RuntimeSteps =>
      /\ log[j].tc \in {"", Stage2Install}
      /\ log[j].dest \in {"", "out", OutputToolchain, Stage2Install}

\* what build() of builder b logs when it runs to completion
FullBuild(b) ==
  [i \in 1..Len(config_list(objs[b].cls)) |-> <<"build_config", i>>]
  \o << <<"install", 0>>, <<"ret", 0>> >>

\* the _build_config / install / return events of builder b, in log order
BuildEvents(b) ==
  LET Mine(e) == e.who = b /\ e.k \in {"build_config", "install", "ret"}
      es == SelectSeq(log, Mine)
  IN [i \in 1..Len(es) |-> <<es[i].k, es[i].cfg>>]

IsPrefix(p, q) == Len(p) <= Len(q) /\ SubSeq(q, 1, Len(p)) = p

Constructed(b) == objs[b].cls # ""

\* C4: build() on a builder that passes the gate processes config_list in
\* list order: for each index i it makes config_list[i] the active
\* configuration and calls _build_config() exactly once before index i+1, and
\* install() is called exactly once, after _build_config() returned for all.
C4_ConfigsInOrder ==
  \A b \in InstNames :
    Constructed(b) /\ should_build(registry, objs[b].name) =>
      /\ IsPrefix(BuildEvents(b), FullBuild(b))
      /\ HasEvent("ret", b) => BuildEvents(b) = FullBuild(b)
      /\ InBuildConfig(b) =>
           /\ active[b] = frame.i
           /\ BuildEvents(b)[Len(BuildEvents(b))] = <<"build_config", frame.i>>

\* a builder with several configurations has run build() to completion
C4_Witness ==
  /\ should_build(registry, "libomp")
  /\ HasEvent("ret", "libomp")
  /\ Len(BuildEvents("libomp")) = Len(config_list("DoBuild_LibOMPBuilder")) + 2

\* C5: when the registry filters out a builder's name, its build() does no
\* work: no _build_config(), no install(), no external command, and the
\* builder's active configuration stays what the constructor made it.
C5_FilteredDoesNothing ==
  \A b \in InstNames :
    Constructed(b) /\ ~should_build(registry, objs[b].name) =>
      /\ active[b] = 1
      /\ \A j \in DOMAIN log : log[j].who = b => log[j].k \in {"call", "ret"}

\* build() of a filtered builder has been called and has returned
C5_Witness ==
  \E b \in InstNames :
    /\ Constructed(b)
    /\ ~should_build(registry, objs[b].name)
    /\ HasEvent("ret", b)

\* the events of stage1's full build-and-install sequence
Stage1Sequence ==
  <<"call", "build_config", "nproc", "script", "cmake", "ninja", "ninja install",
    "install", "ret">>

EventsOf(who) ==
  LET Mine(e) == e.who = who
      es == SelectSeq(log, Mine)
  IN [i \in 1..Len(es) |-> IF es[i].k = "cmd" THEN es[i].what ELSE es[i].k]

\* C6: with an allow-list containing only "stage1" the pipeline runs stage1's
\* full build-and-install sequence and invokes no external command for stage2
\* nor for any runtime step (compiler-rt, host i386 compiler-rt, libomp,
\* sysroot creation, asan map files).
C6_OnlyStage1 ==
  registry = add_builds({"stage1"}) =>
    /\ \A j \in DOMAIN log :
         log[j].k = "cmd" => log[j].who \notin RuntimeSteps \cup {"stage2"}
    /\ IsPrefix(EventsOf("stage1"), Stage1Sequence)
    /\ HasEvent("ret", "stage1") => EventsOf("stage1") = Stage1Sequence

\* the allow-list run has passed stage1, stage2 and every runtime step
C6_Witness ==
  /\ registry = add_builds({"stage1"})
  /\ EventsOf("stage1") = Stage1Sequence
  /\ HasEvent("ret", "stage2")
  /\ HasEvent("ret", "libomp")
  /\ pc = "package"

\* C8: an external command that exits nonzero aborts the pipeline at once: no
\* external command is invoked after it.
C8_FailFast == failed # "earlier"

(***************************************************************************)
(* Properties of the registry.                                             *)
(***************************************************************************)
\* what the most recent configuration call asks should_build(n) to be
LastCallAllows(n) ==
  IF calls.ops[Len(calls.ops)] = "add_builds"
  THEN n \in calls.last
  ELSE n \notin calls.last

\* C7: allow-list and skip-list are mutually exclusive and the most recently
\* configured one wins: after add_builds(names) should_build(n) is true exactly
\* for n in names, after add_skips(names) exactly for n not in names, after
\* both in either order only the later call counts, with no configuration
\* should_build is true for every name, and should_build never changes the
\* registry.
C7_LastConfigurationWins ==
  /\ [](\A n \in Names :
          should_build(registry, n) <=>
            (calls.ops = <<>> \/ LastCallAllows(n)))
  /\ [][\A n \in Names :
          answer' # answer /\ answer'.name = n =>
            /\ registry' = registry
            /\ answer'.result = should_build(registry, n)]_vars

\* an allow-list and a skip-list were configured one after the other and
\* should_build was asked about a name on which the two disagree
C7_Witness ==
  /\ Len(calls.ops) >= 2
  /\ calls.ops[Len(calls.ops)] # calls.ops[Len(calls.ops) - 1]
  /\ answer.name \in calls.last
  /\ answer.result = should_build(registry, answer.name)
  /\ answer.result = (calls.ops[Len(calls.ops)] = "add_builds")

(***************************************************************************)
(* Properties of flag and define resolution.                               *)
(***************************************************************************)
\* C9: resolution is additive through the hierarchy: for every builder class
\* and active configuration every cmake define key set by an ancestor layer is
\* still a key of the final cmake_defines, and every flag an ancestor layer
\* contributes to cflags, cxxflags or ldflags is still in the subclass's
\* result, unless a layer removes it by an explicit deletion.
C9_Additive ==
  res.done =>
    /\ sel.self.cls \in CMakeClasses =>
         \A i \in DOMAIN DefineLayers(sel.self, SelCfg) :
           (DOMAIN DefineLayers(sel.self, SelCfg)[i]) \ DeletedKeys(sel.self.cls)
             \subseteq DOMAIN res.defines
    /\ Range(Builder_cflags(sel.self, SelCfg)) \subseteq Range(res.cflags)
    /\ Range(Builder_ldflags(sel.self, SelCfg)) \subseteq Range(res.ldflags)
    /\ Range(res.cflags) \subseteq Range(res.cxxflags)

\* a compiler-rt builder whose defines went through the whole hierarchy: the
\* ancestors' keys are there and the deleted one is gone
C9_Witness ==
  /\ res.done
  /\ sel.self.cls = "CompilerRTBuilder"
  /\ "CMAKE_SYSTEM_NAME" \in DOMAIN LLVMRuntimeBuilder_cmake_defines(sel.self, SelCfg)
  /\ "CMAKE_SYSTEM_NAME" \notin DOMAIN res.defines
  /\ {"CMAKE_C_COMPILER", "LLVM_ENABLE_ASSERTIONS", "LLVM_CONFIG_PATH",
      "COMPILER_RT_INCLUDE_TESTS"} \subseteq DOMAIN res.defines

NoRepeats(s) == \A i, j \in DOMAIN s : s[i] = s[j] => i = j

\* q is p followed by additions, none of which repeats a flag
Extends(q, p) == IsPrefix(p, q) /\ NoRepeats(q)

\* C10: resolution is order-preserving along the override chain: the flag
\* sequence of the subclass is the base's flags followed by the additions of
\* the layers below it, with no reordering, duplication or interleaving
\* (Builder.ldflags -> LLVMBuilder -> Stage2Builder.ldflags, Builder.cflags ->
\* CompilerRTBuilder.cflags, Builder.cflags / ldflags -> LibUnwindBuilder, and
\* cflags -> cxxflags).
C10_OrderPreserving ==
  res.done =>
    /\ Extends(res.cflags, Builder_cflags(sel.self, SelCfg))
    /\ Extends(res.ldflags, Builder_ldflags(sel.self, SelCfg))
    /\ Extends(res.cxxflags, res.cflags)

\* an instrumented stage2 builder on the host: its ldflags are the -L flags of
\* Builder.ldflags followed by the profile runtime
C10_Witness ==
  /\ res.done
  /\ sel.self.cls = "Stage2Builder"
  /\ sel.self.build_instrumented
  /\ Builder_ldflags(sel.self, SelCfg) # <<>>
  /\ Len(res.ldflags) = Len(Builder_ldflags(sel.self, SelCfg)) + 1

(***************************************************************************)
(* Properties of evaluation: purity, deletion.                             *)
(***************************************************************************)
\* a step that reads the flag properties of the selected or of another builder
Evaluation == Flags_Eval \/ Flags_EvalOther

CompilerRTClasses == {"CompilerRTBuilder", "DoBuild_CompilerRTBuilder"}

\* C12: a deletion is terminal for its key: the final cmake_defines of
\* CompilerRTBuilder never contains CMAKE_SYSTEM_NAME, for any configuration of
\* its config list, although the CMakeBuilder layer sets the key for these
\* cross-compiled configurations, and no layer evaluated after the deletion
\* puts the key back.
C12_DeletionIsTerminal ==
  res.done /\ sel.self.cls \in CompilerRTClasses =>
    /\ SelCfg.is_cross_compiling
    /\ "CMAKE_SYSTEM_NAME" \in DOMAIN CMakeBuilder_cmake_defines(sel.self, SelCfg)
    /\ "CMAKE_SYSTEM_NAME" \in DOMAIN LLVMRuntimeBuilder_cmake_defines(sel.self, SelCfg)
    /\ "CMAKE_SYSTEM_NAME" \notin DOMAIN res.defines
    /\ "CMAKE_SYSTEM_PROCESSOR" \in DOMAIN res.defines

\* the pipeline driver's compiler-rt builder has evaluated its defines for the
\* last configuration of its list, the keys added after the deletion included
C12_Witness ==
  /\ res.done
  /\ sel.self.cls = "DoBuild_CompilerRTBuilder"
  /\ sel.i = Len(config_list("DoBuild_CompilerRTBuilder"))
  /\ "CMAKE_SYSTEM_NAME" \in DOMAIN CMakeBuilder_cmake_defines(sel.self, SelCfg)
  /\ "SANITIZER_COMMON_LINK_LIBS" \in DOMAIN res.defines
  /\ "CMAKE_SYSTEM_NAME" \notin DOMAIN res.defines

(***************************************************************************)
(* The commands of one configuration's build.                              *)
(***************************************************************************)
\* the commands builder b ran for its i-th configuration, nproc queries aside
Tools(b, i) ==
  LET Mine(e) == e.who = b /\ e.k = "cmd" /\ e.cfg = i /\ e.what # "nproc"
      es == SelectSeq(log, Mine)
  IN [j \in 1..Len(es) |-> es[j].what]

\* _build_config has returned for the i-th configuration of builder b
ConfigBuilt(b, i) ==
  \E j \in DOMAIN log :
    /\ log[j].who = b
    /\ \/ log[j].k = "build_config" /\ log[j].cfg = i + 1
       \/ log[j].k = "install"

Configs(b) == DOMAIN config_list(objs[b].cls)

CMakeNinjaInstall == <<"cmake", "ninja", "ninja install">>

\* C13 as stated: every CMake-style builder runs cmake, ninja and ninja install,
\* each exactly once and in that order, for every configuration it builds
C13_CmakeNinjaInstall ==
  \A b \in InstNames :
    Constructed(b) /\ objs[b].cls \in CMakeClasses =>
      \A i \in Configs(b) :
        /\ IsPrefix(Tools(b, i), CMakeNinjaInstall)
        /\ ConfigBuilt(b, i) => Tools(b, i) = CMakeNinjaInstall

\* classes whose install_config copies the library by hand
ManualInstallClasses ==
  {"BuiltinsBuilder", "LibUnwindBuilder", "LibOMPBuilder", "DoBuild_LibOMPBuilder",
   "PlatformLibcxxAbiBuilder"}

ToolsOf(cls, cfg) ==
  CASE cls = "PlatformLibcxxAbiBuilder" /\ ~_is_64bit(cfg) -> <<>>
    [] cls \in ManualInstallClasses -> <<"cmake", "ninja">>
    [] OTHER -> CMakeNinjaInstall

\* C13: for every CMake-style builder and configuration, _build_config runs
\* cmake and then ninja, each exactly once, and then install_config once;
\* install_config runs ninja install once unless the class installs by a manual
\* copy (builtins, libunwind, libomp, platform libcxxabi), which runs no
\* command; platform libcxxabi runs no command at all for a 32-bit configuration
C13_CmakeNinjaThenInstallConfig ==
  \A b \in InstNames :
    Constructed(b) /\ objs[b].cls \in CMakeClasses =>
      \A i \in Configs(b) :
        /\ IsPrefix(Tools(b, i), ToolsOf(objs[b].cls, config_list(objs[b].cls)[i]))
        /\ ConfigBuilt(b, i) =>
             Tools(b, i) = ToolsOf(objs[b].cls, config_list(objs[b].cls)[i])

C13_Witness ==
  /\ HasEvent("ret", "solo")
  /\ objs["solo"].cls = "CompilerRTBuilder"
  /\ \A i \in Configs("solo") : Tools("solo", i) = CMakeNinjaInstall

\* what builder b did for its i-th configuration: files touched, flag files
\* written and commands run
AutoconfSteps(b, i) ==
  LET Mine(e) == e.who = b /\ e.cfg = i /\ e.k \in {"touch", "flagfile", "cmd"}
      es == SelectSeq(log, Mine)
  IN [j \in 1..Len(es) |-> IF es[j].k = "cmd" THEN es[j].what ELSE es[j].k]

TouchConfigureMakeInstall ==
  <<"touch", "flagfile", "flagfile", "configure", "make -j", "make install">>

\* C14: for every Autoconf-style builder and configuration, _build_config
\* touches the configure-generated files first, then runs configure, make -j
\* and make install, each exactly once and in that order, and the cflags and
\* cxxflags side files are written before configure runs
C14_TouchConfigureMakeInstall ==
  \A b \in InstNames :
    Constructed(b) /\ objs[b].cls = "AutoconfBuilder" =>
      \A i \in Configs(b) :
        /\ IsPrefix(AutoconfSteps(b, i), TouchConfigureMakeInstall)
        /\ ConfigBuilt(b, i) => AutoconfSteps(b, i) = TouchConfigureMakeInstall

C14_Witness ==
  /\ HasEvent("ret", "solo")
  /\ objs["solo"].cls = "AutoconfBuilder"
  /\ \A i \in Configs("solo") : AutoconfSteps("solo", i) = TouchConfigureMakeInstall

\* C15: before every cmake and every configure invocation, those made directly
\* by the pipeline driver included, an invocation script for that build has
\* been written into the build's output directory
C15_ScriptBeforeInvocation ==
  \A j \in DOMAIN log :
    log[j].k = "cmd" /\ log[j].what \in {"cmake", "configure"} =>
      \E h \in 1..(j - 1) :
        /\ log[h].k = "script"
        /\ log[h].who = log[j].who
        /\ log[h].cfg = log[j].cfg

(***************************************************************************)
(* Where the runtime libraries are installed.                              *)
(***************************************************************************)
\* the classes that inherit LLVMRuntimeBuilder.install_dir
RuntimeLibClasses ==
  {"BuiltinsBuilder", "LibUnwindBuilder", "LibOMPBuilder", "DoBuild_LibOMPBuilder",
   "PlatformLibcxxAbiBuilder"}

NdkDir(tc, arch) == tc \o "/runtimes_ndk_cxx/" \o arch

ResourceArchDir(tc, arch) == tc \o "/lib/clang/ver/lib/linux/" \o arch

IsNdk(cfg) == cfg.target_os = "android" /\ ~cfg.platform

\* C16: the install dir of an LLVMRuntimeBuilder, as handed to cmake in
\* CMAKE_INSTALL_PREFIX, is <output toolchain>/runtimes_ndk_cxx/<arch> exactly
\* when the active configuration targets Android and is not a platform
\* configuration, and <output toolchain resource dir>/<arch> otherwise; a
\* platform=False aarch64 configuration installs to the NDK-style directory
C16_InstallDir ==
  res.done /\ sel.self.cls \in RuntimeLibClasses =>
    LET prefix == res.defines["CMAKE_INSTALL_PREFIX"]
        tc == sel.self.output_toolchain
        arch == SelCfg.target_arch
    IN /\ IsNdk(SelCfg) <=> prefix = W(NdkDir(tc, arch))
       /\ ~IsNdk(SelCfg) <=> prefix = W(ResourceArchDir(tc, arch))
       /\ arch = "aarch64" /\ ~SelCfg.platform =>
            prefix = W(tc \o "/runtimes_ndk_cxx/aarch64")

C16_Witness ==
  /\ res.done
  /\ sel.self.cls = "LibUnwindBuilder"
  /\ SelCfg.target_arch = "aarch64"
  /\ ~SelCfg.platform
  /\ res.defines["CMAKE_INSTALL_PREFIX"]
       = W(sel.self.output_toolchain \o "/runtimes_ndk_cxx/aarch64")

(***************************************************************************)
(* One output directory per builder and configuration.                     *)
(***************************************************************************)
\* the directories into which builder b has written an invocation script
ScriptDirs(b) ==
  {<<log[j].cfg, log[j].what>> : j \in {h \in DOMAIN log : log[h].k = "script"
                                                        /\ log[h].who = b}}

\* every output directory a builder of class cls resolves
OutputDirs(cls) ==
  {Str(output_dir(BuilderObj(cls, class_name(cls), ""), config_list(cls)[i])) :
     i \in DOMAIN config_list(cls)}

DirTable == [cls \in FlagClasses |-> OutputDirs(cls)]

\* C17: the output directories a builder writes to for two different
\* configurations of its config list differ, and no output directory of a
\* builder is an output directory of a builder with a different name
C17_OneDirPerBuilderPerConfig ==
  Len(log) > 0 /\ log[Len(log)].k = "script" =>
    LET e == log[Len(log)]
    IN /\ \A h \in 1..(Len(log) - 1) :
            /\ log[h].k = "script"
            /\ \/ log[h].who = e.who /\ log[h].cfg # e.cfg
               \/ objs[log[h].who].name # objs[e.who].name
            => log[h].what # e.what
       /\ \A cls \in FlagClasses :
            class_name(cls) # objs[e.who].name => e.what \notin DirTable[cls]

C17_Witness ==
  /\ HasEvent("ret", "solo")
  /\ objs["solo"].cls = "LibOMPBuilder"
  /\ Cardinality(ScriptDirs("solo")) = Len(config_list("LibOMPBuilder"))
  /\ Cardinality({x[2] : x \in ScriptDirs("solo")}) = Len(config_list("LibOMPBuilder"))

(***************************************************************************)
(* Packaging.                                                              *)
(***************************************************************************)
\* a necessary binary or library is missing from the tree given to
\* package_toolchain
Absent ==
  \/ ~(necessary_bin_files \subseteq tree.build_bin)
  \/ ~(necessary_lib_files \subseteq tree.build_lib)

Packaged == HasEvent("ret", "package")

\* C18: when package_toolchain is given a tree that lacks a necessary binary
\* or library, it ends in a fatal error: it never returns, never gets past its
\* checks to the NOTICE and VERSION files, and tar is never run
C18_AbsentIsFatal ==
  HasEvent("call", "package") /\ Absent =>
    /\ ~Packaged
    /\ \A j \in DOMAIN log : ~(log[j].k = "cmd" /\ log[j].what = "tar")
    /\ ~tree.NOTICE /\ ~tree.VERSION
    /\ IF frame.b = "package"
       THEN outcome = "running" /\ frame.step \notin {"stamp", "tar", "return"}
       ELSE outcome = "error"

C18_Witness ==
  /\ outcome = "error"
  /\ necessary_bin_files \subseteq tree.build_bin
  /\ "libc++abi.a" \notin tree.build_lib
  /\ log[Len(log)] = Ev("error", "package", "lib64", 0, "", "")
  /\ HasEvent("cmd", "package")

\* C19 as stated: after package_toolchain the bin directory holds only
\* allow-listed files, and the tree has NOTICE and VERSION
C19_OnlyAllowListed ==
  Packaged =>
    /\ tree.bin \subseteq necessary_bin_files
    /\ tree.NOTICE /\ tree.VERSION

\* C19: after package_toolchain the bin directory holds only allow-listed
\* files and the files install_wrappers adds -- clang.real, clang++.real,
\* clang-tidy.real and bisect_driver.py, which are there -- and the tree has
\* NOTICE and VERSION
C19_AllowListedAndWrappers ==
  Packaged =>
    /\ tree.bin \subseteq necessary_bin_files \cup WrapperFiles
    /\ WrapperFiles \subseteq tree.bin
    /\ tree.NOTICE /\ tree.VERSION

C19_Witness ==
  /\ Packaged
  /\ "llvm-tblgen" \in tree.build_bin
  /\ "llvm-tblgen" \notin tree.bin
  /\ "libLLVM.a" \in tree.build_lib \ tree.lib
  /\ tree.NOTICE /\ tree.VERSION

(***************************************************************************)
(* The default toolchain.                                                  *)
(***************************************************************************)
\* the toolchain passed to the constructor of builder b, "" if none was
Explicit(b) == objs[b].toolchain

\* the commands builder b ran with a compiler of its toolchain
ToolchainsUsed(b) ==
  {log[j].tc : j \in {h \in DOMAIN log : log[h].who = b /\ log[h].k = "cmd"
                                        /\ log[h].what # "nproc"}}

Selected(b) ==
  LET Mine(e) == e.who = b /\ e.k = "build_config"
      es == SelectSeq(log, Mine)
  IN [j \in 1..Len(es) |-> es[j].cfg]

\* C21 as stated: a builder whose build() has not selected a configuration yet
\* has no configuration active
C21_PendingHasNoActive ==
  \A b \in InstNames :
    Constructed(b) /\ Selected(b) = <<>> => active[b] = 0

\* C21: a builder whose build() has not selected a configuration yet has the
\* first configuration of its list active, bound by the constructor; after
\* that the active configuration is the one build() selected last
C21_FirstConfigActiveUntilSelected ==
  \A b \in InstNames :
    Constructed(b) =>
      /\ active[b] \in DOMAIN config_list(objs[b].cls)
      /\ Selected(b) = <<>> => active[b] = 1
      /\ Selected(b) # <<>> => active[b] = Selected(b)[Len(Selected(b))]

C21_Witness ==
  /\ Constructed("stage2") /\ Selected("stage2") = <<>> /\ active["stage2"] = 1
  /\ Len(Selected("stage1")) = 1

(***************************************************************************)
(* Options of the pipeline driver.                                         *)
(***************************************************************************)
\* C22: on a build host that is not Linux main() raises at its start: no
\* builder is ever constructed, nothing is ever called or run, and the run
\* never ends normally
C22_NotLinuxIsFatalAtStart ==
  ~env.host_linux =>
    /\ \A b \in InstNames : ~Constructed(b)
    /\ log = <<>>
    /\ tree = NoTree
    /\ IF pc = "main" THEN outcome = "running" ELSE outcome = "error"

C22_Witness == ~env.host_linux /\ outcome = "error" /\ args.flags # {}

\* C23: with --skip-build, whatever --skip or --build say, the registry
\* filters out every name once main() has configured it, no build of a stage
\* or of a runtime library runs an external command, and a run on an included
\* host that ends normally has packaged the stage2 install tree
C23_SkipBuildOnlyPackages ==
  "skip_build" \in args.flags =>
    /\ pc # "main" => \A n \in Names : ~should_build(registry, n)
    /\ \A j \in DOMAIN log : log[j].k = "cmd" => log[j].who = "package"
    /\ \A b \in InstNames : Selected(b) = <<>>
    /\ outcome = "ok" /\ need_host => Packaged /\ tree.VERSION

C23_Witness ==
  /\ "skip_build" \in args.flags
  /\ outcome = "ok"
  /\ Packaged
  /\ HasEvent("ret", "stage2")
  /\ HasEvent("ret", "libomp")

\* the arguments of the run that differs from this one only in having no --debug
NoDebug == [args EXCEPT !.flags = @ \ {"debug"}]

\* what stage1 is built with: its target list and its LLVM_BUILD_TOOLS define
Stage1Params(self) ==
  <<llvm_targets(self),
    DoBuild_Stage1Builder_cmake_defines(Resolved(self), host_config)["LLVM_BUILD_TOOLS"]>>

\* stage1 and the runtimes toolchain of this run are those of the run without
\* --debug
SameAsNoDebug ==
  /\ InFrame("stage1", "cmake") =>
       Stage1Params(objs["stage1"]) = Stage1Params(main_stage1(NoDebug))
  /\ InFrame("compiler-rt", "cmake") =>
       rt_toolchain = Str(install_dir(Resolved(objs[runtimes_stage(NoDebug)]),
                                      host_config))

removeprefix(s, prefix) == SubSeq(s, Len(prefix) + 1, Len(s))

RECURSIVE find(_, _, _)
\* the first position from i on where s holds the character c, 0 when none
find(s, c, i) ==
  IF i > Len(s) THEN 0
  ELSE IF SubSeq(s, i, i) = c THEN i
  ELSE find(s, c, i + 1)

RECURSIVE split(_, _)
\* s.split(c): s cut at every c
split(s, c) ==
  LET i == find(s, c, 1)
  IN IF i = 0 THEN <<s>>
     ELSE <<SubSeq(s, 1, i - 1)>> \o split(SubSeq(s, i + 1, Len(s)), c)

\* s.split(c, 1): s cut at the first c only
split_once(s, c) ==
  LET i == find(s, c, 1)
  IN IF i = 0 THEN <<s>>
     ELSE <<SubSeq(s, 1, i - 1), SubSeq(s, i + 1, Len(s))>>

\* the key and the value string a -D argument was made of
Original(k) == <<k, value_str(k, res.defines[k])>>

\* C25 as stated: every -D<key>=<value> argument, its -D removed and split on
\* '=', gives back exactly the key and the value string it was made of
C25_SplitOnEquals ==
  \A k \in DOMAIN res.cmake_cmd :
    split(removeprefix(res.cmake_cmd[k], "-D"), "=") = Original(k)

\* C25: every -D<key>=<value> argument, its -D removed and split at its first
\* '=', gives back exactly the key and the value string it was made of; a
\* value may hold further '=' (--sysroot=, --target=, -fuse-ld=), the key none
C25_SplitAtFirstEquals ==
  \A k \in DOMAIN res.cmake_cmd :
    split_once(removeprefix(res.cmake_cmd[k], "-D"), "=") = Original(k)

C25_Witness ==
  /\ res.done
  /\ SelCfg.sysroot # ""
  /\ "CMAKE_C_FLAGS" \in DOMAIN res.cmake_cmd
  /\ Len(split(removeprefix(res.cmake_cmd["CMAKE_C_FLAGS"], "-D"), "=")) > 2
  /\ split_once(removeprefix(res.cmake_cmd["CMAKE_SYSROOT"], "-D"), "=")
       = <<"CMAKE_SYSROOT", SelCfg.sysroot>>

Stage2Classes == {"Stage2Builder", "DoBuild_Stage2Builder"}

\* C26: Stage2Builder's defines hold LLVM_ENABLE_LTO, as 'Thin', exactly when
\* lto is set and neither build_instrumented nor debug_build is; an
\* instrumented build has LLVM_BUILD_INSTRUMENTED and LLVM_PROFDATA and no
\* LLVM_PROFDATA_FILE, which is there only for a build that is not
\* instrumented and has a profdata file
C26_LtoAndProfileDefines ==
  res.done /\ sel.self.cls \in Stage2Classes =>
    LET d == res.defines
        self == sel.self
    IN /\ "LLVM_ENABLE_LTO" \in DOMAIN d
            <=> self.lto /\ ~self.build_instrumented /\ ~self.debug_build
       /\ "LLVM_ENABLE_LTO" \in DOMAIN d => d["LLVM_ENABLE_LTO"] = W("Thin")
       /\ self.build_instrumented =>
            /\ {"LLVM_BUILD_INSTRUMENTED", "LLVM_PROFDATA"} \subseteq DOMAIN d
            /\ d["LLVM_BUILD_INSTRUMENTED"] = W("ON")
            /\ "LLVM_PROFDATA_FILE" \notin DOMAIN d
       /\ "LLVM_PROFDATA_FILE" \in DOMAIN d =>
            ~self.build_instrumented /\ self.profdata_file

C26_Witness ==
  /\ res.done
  /\ sel.self.cls = "DoBuild_Stage2Builder"
  /\ sel.self.lto /\ sel.self.build_instrumented /\ sel.self.profdata_file
  /\ "LLVM_PROFDATA" \in DOMAIN res.defines
  /\ "LLVM_ENABLE_LTO" \notin DOMAIN res.defines

\* the triples the selected builder's own evaluations have recorded so far
OwnTriples ==
  LET cfgs == config_list(sel.self.cls)
      n == IF res.done THEN sel.i ELSE sel.i - 1
  IN {config_llvm_triple(cfgs[j]) : j \in {j \in 1..n : cfgs[j].target_os = "linux"}}

\* C27 as stated: the runtimes_triples an LLVM builder instance reads for its
\* check-cxx targets holds only triples recorded while computing that
\* instance's own defines, never one recorded by another instance
C27_TriplesAreOwn ==
  sel.self.cls \in LLVMClasses => runtimes_triples \subseteq OwnTriples

\* C28: with the host component excluded (--no-build linux) the pipeline
\* builds stage1 only: stage2 is never constructed or built, no runtime-library
\* step is entered and nothing is packaged, with or without --skip-package and
\* --skip-runtimes; every event of the run is stage1's
C28_NoHostBuildsStage1Only ==
  ~need_host =>
    /\ \A b \in InstNames \ {"stage1"} : ~Constructed(b)
    /\ log # <<>> => log[Len(log)].who = "stage1"
    /\ pc \in {"main", "stage1", "stage1.build", "stage2", "package", "done", "exit"}
    /\ rt_toolchain = ""
    /\ tree = NoTree
    /\ ~env.prior => Stage2Install \notin installed

C28_Witness ==
  /\ ~need_host
  /\ {"skip_package", "skip_runtimes"} \cap args.flags = {}
  /\ outcome = "ok"
  /\ HasEvent("cmd", "stage1")

(***************************************************************************)
(* install_wrappers on a tree of its own, and again on the tree it leaves. *)
(***************************************************************************)
\* install_wrappers runs at most this many times on one tree
MaxRuns == 3

\* the trees install_wrappers is given: a tree copied from a build, in which a
\* file may be missing, or a prebuilt clang that went through install_wrappers
\* before and may have lost a wrapper since
WrapInputs ==
  {bin_contents(b) : b \in SUBSET {"clang", "clang++", "clang-tidy", "bisect_driver.py"}}
  \cup {[p \in WrapPaths |->
           IF p \in lost THEN "" ELSE install_wrappers(bin_contents(necessary_bin_files)).files[p]] :
         lost \in SUBSET {"clang", "clang++", "clang-tidy", "clang++.real",
                          "bisect_driver.py"}}

\* package_toolchain(build_dir, ...) has come to its install_wrappers call
WrapInit ==
  /\ FlagIdle
  /\ RegIdle
  /\ args = parse_args({})
  /\ env = [host_linux |-> TRUE, profdata |-> FALSE, prior |-> FALSE]
  /\ registry = RegistryDefault
  /\ Builder_toolchain = Prebuilt
  /\ objs = [n \in InstNames |-> NoObj]
  /\ active = [n \in InstNames |-> 0]
  /\ rt_toolchain = ""
  /\ installed = {Stage1Install, Stage2Install}
  /\ log = <<>>
  /\ failed = "none"
  /\ outcome = "running"
  /\ pc = "package.run"
  /\ frame = [b |-> "package", i |-> 1, step |-> "wrappers"]
  /\ \E f \in WrapInputs, others \in SUBSET {"llvm-ar", "scan-build"} :
       tree = [NoTree EXCEPT !.wrap = f, !.bin = bin_names(others, f)]

\* install_wrappers(path) once more, on the tree an earlier run has left
Wrappers_Again ==
  /\ InFrame("package", "normalize")
  /\ Len(log) < MaxRuns
  /\ InstallWrappers(frame)
  /\ UNCHANGED <<flagVars, regVars>>
  /\ UNCHANGED <<args, env, registry, Builder_toolchain, objs, active,
                 rt_toolchain, installed>>

WrapNext == Pkg_Wrappers \/ Wrappers_Again

SpecWrap == WrapInit /\ [][WrapNext]_vars

\* what install_wrappers leaves: the compiler binaries under *.real, the
\* wrapper under the three driver names
Wrapped(f) ==
  /\ f["clang.real"] = "clang"
  /\ f["clang-tidy.real"] = "clang-tidy"
  /\ f["clang++.real"] = "->clang.real"
  /\ \A p \in {"clang", "clang++", "clang-tidy"} : f[p] = "wrapper"
  /\ f["bisect_driver.py"] = "bisect_driver.py"

\* C29: install_wrappers is safe to repeat: a run that returns leaves
\* clang.real and clang-tidy.real holding the compiler binaries and clang,
\* clang++ and clang-tidy holding the wrapper, and a run on the tree an
\* earlier run has left puts no wrapper under *.real and changes nothing
C29_RepeatableWrappers ==
  [][(Pkg_Wrappers \/ Wrappers_Again) /\ outcome' = "running" =>
       /\ Wrapped(tree'.wrap)
       /\ WrapperFiles \subseteq tree'.bin
       /\ Wrappers_Again => tree' = tree]_vars

C29_Witness ==
  /\ InFrame("package", "normalize")
  /\ Len(log) = 2
  /\ Wrapped(tree.wrap)

\* the configuration of the event e of a PlatformLibcxxAbiBuilder
AbiCfg(e) == config_list("PlatformLibcxxAbiBuilder")[e.cfg]

\* C30: PlatformLibcxxAbiBuilder runs the external build (nproc for the
\* defines, cmake, ninja) only for the 64-bit architectures and then copies
\* libc++abi.a into the configuration's sysroot; for a 32-bit architecture it
\* runs no command and only writes libc++abi.so, holding 'INPUT(-lc++)', into
\* the sysroot; `ninja install` is run in neither case.  Stated of the latest
\* event and the one before it, in every state.
C30_PlatformLibcxxAbi ==
  objs["solo"].cls = "PlatformLibcxxAbiBuilder" /\ Len(log) >= 2 =>
    LET e == log[Len(log)]
        before == log[Len(log) - 1]
    IN e.who = "solo" =>
         /\ e.k \in {"cmd", "script"} =>
              _is_64bit(AbiCfg(e)) /\ e.what # "ninja install"
         /\ e.k = "copy" =>
              /\ _is_64bit(AbiCfg(e))
              /\ e.what = "libc++abi.a"
              /\ e.dest = PlatformLibcxxAbi_install_dir(AbiCfg(e))
              /\ before = Cmd("solo", "ninja", e.cfg, before.tc, before.dest)
         /\ e.k = "write" =>
              /\ ~_is_64bit(AbiCfg(e))
              /\ e.what = "libc++abi.so" /\ e.tc = "INPUT(-lc++)"
              /\ e.dest = AbiCfg(e).sysroot \o "/usr/lib"
              /\ before = Ev("build_config", "solo", "", e.cfg, "", "")
         /\ e.k = "build_config" /\ e.cfg > 1 =>
              before.k = (IF _is_64bit(AbiCfg(before)) THEN "copy" ELSE "write")

C30_Witness ==
  /\ objs["solo"].cls = "PlatformLibcxxAbiBuilder"
  /\ outcome = "ok"
  /\ \E i, j \in DOMAIN log :
       /\ log[i].k = "write" /\ log[i].dest = "sysroots/platform/arm/usr/lib"
       /\ log[j].k = "copy" /\ log[j].dest = "sysroots/platform/x86_64/usr/lib64"


====
